---- MODULE Spec2Model ----
(***************************************************************************)
(* Model of the calculator pages of whatsmyv0.5: the mortgage page          *)
(* (MortgagePayment, src/unnamed/part_000), the amortization chart          *)
(* (MortgageAmortizationChart) and the pension page (PensionProjection),    *)
(* both in src/src/pages/PensionProjection.tsx.                             *)
(*                                                                         *)
(* JavaScript numbers are modelled by exact fractions <<num, den>> in       *)
(* lowest terms with den > 0, extended with the three IEEE values that a    *)
(* division by zero produces: <<1, 0>> is Infinity, <<-1, 0>> is -Infinity  *)
(* and <<0, 0>> is NaN.  Rounding of binary floating point is not           *)
(* modelled: every finite result is the exact real result.                  *)
(*                                                                         *)
(* LoanSpec applies the payment formulas, calculateWithOverpayment and      *)
(* calculateAmortizationData to bounded inputs, one loop iteration per      *)
(* step.  MortgageSpec and PensionSpec are the two forms: every step is an  *)
(* event handler, or a timer callback, together with the renders and the   *)
(* effects that follow it.                                                  *)
(*                                                                         *)
(* ProjectionSpec, PowerSpec and RateSpec apply the timer bodies of         *)
(* calculateProjection, calculatePurchasingPower (PurchasingPower,          *)
(* src/src/pages/TakeHomePay.tsx) and calculateMortgage to bounded inputs;  *)
(* PowerPageSpec is the form of PurchasingPower.  ChartSpec applies         *)
(* calculateAmortizationData to terms of whole years, and CarSpec is the    *)
(* form of the car finance page (CarPayment, PensionProjection.tsx).        *)
(***************************************************************************)
EXTENDS Integers, Sequences, FiniteSets, TLC

----------------------------------------------------------------------------
(* Numbers *)

Abs(i) == IF i < 0 THEN -i ELSE i

Sign(i) == IF i < 0 THEN -1 ELSE IF i = 0 THEN 0 ELSE 1

RECURSIVE Gcd(_, _)
Gcd(a, b) == IF b = 0 THEN a ELSE Gcd(b, a % b)

\* The fraction n/d (d # 0) in lowest terms with a positive denominator.
Norm(n, d) ==
    LET g == Gcd(Abs(n), Abs(d))
    IN  <<Sign(d) * (n \div g), Abs(d) \div g>>

Num(i) == <<i, 1>>

Zero == <<0, 1>>

NaN == <<0, 0>>

Infinity == <<1, 0>>

IsNaN(x) == x = NaN

IsInf(x) == x[2] = 0 /\ x[1] # 0

IsFinite(x) == x[2] # 0

Neg(x) == <<-x[1], x[2]>>

\* x + y
Add(x, y) ==
    IF IsNaN(x) \/ IsNaN(y) THEN NaN
    ELSE IF IsInf(x) /\ IsInf(y) THEN (IF x = y THEN x ELSE NaN)
    ELSE IF IsInf(x) THEN x
    ELSE IF IsInf(y) THEN y
    ELSE LET g == Gcd(x[2], y[2])
             l == (x[2] \div g) * y[2]
         IN  Norm(x[1] * (l \div x[2]) + y[1] * (l \div y[2]), l)

\* x - y
Sub(x, y) == Add(x, Neg(y))

\* x * y
Mul(x, y) ==
    IF IsNaN(x) \/ IsNaN(y) THEN NaN
    ELSE IF IsInf(x) \/ IsInf(y)
         THEN <<Sign(x[1]) * Sign(y[1]), 0>>
    ELSE LET g1 == Gcd(Abs(x[1]), y[2])
             g2 == Gcd(Abs(y[1]), x[2])
         IN  <<(x[1] \div g1) * (y[1] \div g2), (x[2] \div g2) * (y[2] \div g1)>>

\* x / y; a finite x over zero is an infinity of x's sign, 0 / 0 is NaN.
Div(x, y) ==
    IF IsNaN(x) \/ IsNaN(y) THEN NaN
    ELSE IF IsInf(y) THEN (IF IsInf(x) THEN NaN ELSE Zero)
    ELSE IF IsInf(x) THEN <<Sign(x[1]) * (IF y[1] < 0 THEN -1 ELSE 1), 0>>
    ELSE IF y[1] = 0 THEN <<Sign(x[1]), 0>>
    ELSE Mul(x, Norm(y[2], y[1]))

\* x < y; every comparison with NaN is false.
Lt(x, y) ==
    IF IsNaN(x) \/ IsNaN(y) \/ x = y THEN FALSE
    ELSE IF IsInf(x) THEN x[1] < 0
    ELSE IF IsInf(y) THEN y[1] > 0
    ELSE Sub(x, y)[1] < 0

Gt(x, y) == Lt(y, x)

\* x <= y
Le(x, y) == ~IsNaN(x) /\ ~IsNaN(y) /\ (x = y \/ Lt(x, y))

Ge(x, y) == Le(y, x)

\* Math.pow(x, k) for an integer k >= 0; Math.pow(x, 0) is 1 for every x.
RECURSIVE Pow(_, _)
Pow(x, k) == IF k = 0 THEN Num(1) ELSE Mul(x, Pow(x, k - 1))

\* Math.min, Math.max (no NaN reaches them in the pages modelled here).
Min(x, y) == IF Lt(y, x) THEN y ELSE x

Max(x, y) == IF Lt(x, y) THEN y ELSE x

\* The integer value of a whole number (a count of periods).
IntOf(x) == x[1] \div x[2]

----------------------------------------------------------------------------
(* MortgagePayment: the payment formulas and the overpayment simulator *)

\* calculateMonthlyPayment testing the rate with < in place of <=.
calculateMonthlyPayment_StrictTest(loanAmount, interestRate, loanTermYears) ==
    LET monthlyRate == Div(Div(interestRate, Num(100)), Num(12))
        numberOfPayments == Mul(loanTermYears, Num(12))
        growth == Pow(Add(Num(1), monthlyRate), IntOf(numberOfPayments))
    IN  IF Lt(monthlyRate, Zero)
        THEN Div(loanAmount, numberOfPayments)
        ELSE Div(Mul(loanAmount, Mul(monthlyRate, growth)), Sub(growth, Num(1)))

\* calculateMonthlyPayment(loanAmount, interestRate, loanTermYears)
calculateMonthlyPayment(loanAmount, interestRate, loanTermYears) ==
    LET monthlyRate == Div(Div(interestRate, Num(100)), Num(12))
        numberOfPayments == Mul(loanTermYears, Num(12))
        growth == Pow(Add(Num(1), monthlyRate), IntOf(numberOfPayments))
    IN  IF Le(monthlyRate, Zero)
        THEN Div(loanAmount, numberOfPayments)
        ELSE Div(Mul(loanAmount, Mul(monthlyRate, growth)), Sub(growth, Num(1)))

\* The inline formula with the factor (1+r)^n left out of the numerator.
PrincipalAndInterest_NoGrowth(loanAmount, monthlyInterestRate, numberOfPayments) ==
    LET growth == Pow(Add(Num(1), monthlyInterestRate), IntOf(numberOfPayments))
    IN  IF Gt(monthlyInterestRate, Zero)
        THEN Div(Mul(loanAmount, monthlyInterestRate), Sub(growth, Num(1)))
        ELSE Div(loanAmount, numberOfPayments)

\* The principal-and-interest formula written inline in calculateMortgage.
PrincipalAndInterest(loanAmount, monthlyInterestRate, numberOfPayments) ==
    LET growth == Pow(Add(Num(1), monthlyInterestRate), IntOf(numberOfPayments))
    IN  IF Gt(monthlyInterestRate, Zero)
        THEN Div(Mul(loanAmount, Mul(monthlyInterestRate, growth)),
                 Sub(growth, Num(1)))
        ELSE Div(loanAmount, numberOfPayments)

\* The monthly payment of the 'hp' branch of calculateCarLoan; loanTerm is
\* a number of months there.
HirePurchasePayment(loanAmount, interestRate, loanTerm) ==
    LET monthlyInterestRate == Div(Div(interestRate, Num(100)), Num(12))
        growth == Pow(Add(Num(1), monthlyInterestRate), IntOf(loanTerm))
    IN  IF Gt(monthlyInterestRate, Zero)
        THEN Div(Mul(loanAmount, Mul(monthlyInterestRate, growth)),
                 Sub(growth, Num(1)))
        ELSE Div(loanAmount, loanTerm)

\* The monthly payment computed at the head of calculateAmortizationData.
ChartMonthlyPayment(loanAmount, interestRate, loanTerm) ==
    LET monthlyRate == Div(Div(interestRate, Num(100)), Num(12))
        totalPayments == Mul(loanTerm, Num(12))
        growth == Pow(Add(Num(1), monthlyRate), IntOf(totalPayments))
    IN  IF Gt(monthlyRate, Zero)
        THEN Div(Mul(loanAmount, Mul(monthlyRate, growth)), Sub(growth, Num(1)))
        ELSE Div(loanAmount, totalPayments)

\* The loop variables of calculateWithOverpayment before the first period.
OverpaymentStart(loanAmount) ==
    [balance |-> loanAmount, month |-> 0, totalInterest |-> Zero]

\* The loop condition without the cap on the number of months.
OverpaymentContinues_NoCap(s, originalTermMonths) == Gt(s.balance, Zero)

\* The loop condition of calculateWithOverpayment.
OverpaymentContinues(s, originalTermMonths) ==
    Gt(s.balance, Zero) /\ Lt(Num(s.month), originalTermMonths)

\* The final-period adjustment leaving the balance below zero.
FinalPaymentAdjust_NoReset(totalInterest, balance) ==
    IF Lt(balance, Zero)
    THEN [totalInterest |-> Add(totalInterest, Mul(balance, Num(-1))),
          balance |-> balance]
    ELSE [totalInterest |-> totalInterest, balance |-> balance]

\* The final-period adjustment of calculateWithOverpayment: given the
\* interest total and the balance after the period's payment.
FinalPaymentAdjust(totalInterest, balance) ==
    IF Lt(balance, Zero)
    THEN [totalInterest |-> Add(totalInterest, Mul(balance, Num(-1))),
          balance |-> Zero]
    ELSE [totalInterest |-> totalInterest, balance |-> balance]

\* The loop body taking the whole regular payment as principal.
OverpaymentMonth_AllPrincipal(s, monthlyInterestRate, regularPayment, overpayment) ==
    LET interestThisMonth == Mul(s.balance, monthlyInterestRate)
        principalThisMonth == Add(regularPayment, overpayment)
        adj == FinalPaymentAdjust(Add(s.totalInterest, interestThisMonth),
                                  Sub(s.balance, principalThisMonth))
    IN  [balance |-> adj.balance, month |-> s.month + 1,
         totalInterest |-> adj.totalInterest]

\* One pass through the loop body of calculateWithOverpayment.
OverpaymentMonth(s, monthlyInterestRate, regularPayment, overpayment) ==
    LET interestThisMonth == Mul(s.balance, monthlyInterestRate)
        principalThisMonth ==
            Add(Sub(regularPayment, interestThisMonth), overpayment)
        adj == FinalPaymentAdjust(Add(s.totalInterest, interestThisMonth),
                                  Sub(s.balance, principalThisMonth))
    IN  [balance |-> adj.balance, month |-> s.month + 1,
         totalInterest |-> adj.totalInterest]

RECURSIVE OverpaymentLoop(_, _, _, _, _)
OverpaymentLoop(s, rate, regularPayment, overpayment, originalTermMonths) ==
    IF OverpaymentContinues(s, originalTermMonths)
    THEN OverpaymentLoop(OverpaymentMonth(s, rate, regularPayment, overpayment),
                         rate, regularPayment, overpayment, originalTermMonths)
    ELSE s

\* calculateWithOverpayment(...): { totalInterest, months }
calculateWithOverpayment(loanAmount, rate, regularPayment, overpayment, originalTermMonths) ==
    LET s == OverpaymentLoop(OverpaymentStart(loanAmount), rate,
                             regularPayment, overpayment, originalTermMonths)
    IN  [totalInterest |-> s.totalInterest, months |-> s.month]

----------------------------------------------------------------------------
(* MortgageAmortizationChart: calculateAmortizationData *)

\* One month of the pre-calculation loop; c = [balance, principal, interest,
\* month], month 13 marking the end of the inner loop.
PrecalcMonth(c, monthlyRate, monthlyPayment, monthlyOverpayment) ==
    IF Le(c.balance, Zero) THEN [c EXCEPT !.month = 13]
    ELSE LET interestPayment == Mul(c.balance, monthlyRate)
             base == Sub(monthlyPayment, interestPayment)
             principalPayment == IF Gt(monthlyOverpayment, Zero)
                                 THEN Add(base, monthlyOverpayment) ELSE base
         IN  IF Gt(principalPayment, c.balance)
             THEN [balance |-> Zero,
                   principal |-> Add(c.principal, c.balance),
                   interest |-> Add(c.interest, interestPayment),
                   month |-> 13]
             ELSE [balance |-> Sub(c.balance, principalPayment),
                   principal |-> Add(c.principal, principalPayment),
                   interest |-> Add(c.interest, interestPayment),
                   month |-> c.month + 1]

RECURSIVE PrecalcMonths(_, _, _, _)
PrecalcMonths(c, monthlyRate, monthlyPayment, monthlyOverpayment) ==
    IF c.month <= 12
    THEN PrecalcMonths(PrecalcMonth(c, monthlyRate, monthlyPayment, monthlyOverpayment),
                       monthlyRate, monthlyPayment, monthlyOverpayment)
    ELSE c

\* One year of the pre-calculation loop, started from remainingBalance, which
\* the pre-calculation never updates: { principal, interest }.
PrecalcYear(remainingBalance, monthlyRate, monthlyPayment, monthlyOverpayment) ==
    IF Le(remainingBalance, Zero) THEN [principal |-> Zero, interest |-> Zero]
    ELSE LET c == PrecalcMonths([balance |-> remainingBalance, principal |-> Zero,
                                 interest |-> Zero, month |-> 1],
                                monthlyRate, monthlyPayment, monthlyOverpayment)
         IN  [principal |-> c.principal, interest |-> c.interest]

\* The entry pushed for a year after the loan is paid off.
PaidOffEntry(c, y) ==
    [year |-> y, principalPaid |-> c.loanAmount, interestPaid |-> c.totalInterestPaid,
     remainingBalance |-> Zero, yearlyPrincipalPaid |-> Zero,
     yearlyInterestPaid |-> Zero, totalPrincipalRemaining |-> Zero,
     totalInterestRemaining |-> Zero, nextYearPrincipalPayment |-> Zero,
     nextYearInterestPayment |-> Zero]

\* The yearly payments of the pre-calculation are none, so that
\* yearlyPayments[0] is undefined and reading its principal throws.
NoYearlyPayments(loanTerm) == IntOf(loanTerm) < 1

\* calculateAmortizationData up to the main loop: the payment, the
\* pre-calculated yearly payments and the entry of year 1.  With loanTerm 0
\* yearlyPayments is empty and reading yearlyPayments[0].principal throws.
ChartStart(loanAmount, interestRate, loanTerm, monthlyOverpayment) ==
    LET monthlyRate == Div(Div(interestRate, Num(100)), Num(12))
        totalPayments == Mul(loanTerm, Num(12))
        monthlyPayment == ChartMonthlyPayment(loanAmount, interestRate, loanTerm)
        totalInterestNoOverpayment ==
            Sub(Mul(monthlyPayment, totalPayments), loanAmount)
        yearlyPayments ==
            [y \in 1..IntOf(loanTerm) |->
                PrecalcYear(loanAmount, monthlyRate, monthlyPayment, monthlyOverpayment)]
        base == [loanAmount |-> loanAmount, monthlyRate |-> monthlyRate,
                 loanTerm |-> IntOf(loanTerm), monthlyPayment |-> monthlyPayment,
                 monthlyOverpayment |-> monthlyOverpayment,
                 yearlyPayments |-> yearlyPayments,
                 remainingBalance |-> loanAmount,
                 totalInterestPaid |-> Zero, totalPrincipalPaid |-> Zero,
                 yearlyPrincipalPaid |-> Zero, yearlyInterestPaid |-> Zero,
                 isLoanPaid |-> FALSE, year |-> 1, month |-> 1,
                 yearlyData |-> <<>>, pc |-> "TypeError"]
    IN  IF NoYearlyPayments(loanTerm) THEN base
        ELSE [base EXCEPT
               !.pc = "year",
               !.yearlyData =
                  <<[year |-> 1, principalPaid |-> Zero, interestPaid |-> Zero,
                     remainingBalance |-> loanAmount,
                     yearlyPrincipalPaid |-> Zero, yearlyInterestPaid |-> Zero,
                     totalInterestRemaining |-> totalInterestNoOverpayment,
                     totalPrincipalRemaining |-> loanAmount,
                     nextYearPrincipalPayment |-> yearlyPayments[1].principal,
                     nextYearInterestPayment |-> yearlyPayments[1].interest]>>]

\* The head of the main loop "for (year = 1; year < loanTerm; year++)".
ChartYearHead(c) ==
    IF ~(c.year < c.loanTerm) THEN [c EXCEPT !.pc = "done"]
    ELSE IF c.isLoanPaid
    THEN [c EXCEPT !.yearlyData = Append(@, PaidOffEntry(c, c.year + 1)),
                   !.year = @ + 1]
    ELSE [c EXCEPT !.yearlyPrincipalPaid = Zero, !.yearlyInterestPaid = Zero,
                   !.month = 1, !.pc = "month"]

\* One pass through the monthly loop of the main loop.
ChartMonth(c) ==
    IF ~(c.month <= 12) THEN [c EXCEPT !.pc = "yearEnd"]
    ELSE IF Le(c.remainingBalance, Zero)
    THEN [c EXCEPT !.isLoanPaid = TRUE, !.pc = "yearEnd"]
    ELSE LET interestPayment == Mul(c.remainingBalance, c.monthlyRate)
             base == Sub(c.monthlyPayment, interestPayment)
             principalPayment == IF Gt(c.monthlyOverpayment, Zero)
                                 THEN Add(base, c.monthlyOverpayment) ELSE base
         IN  IF Gt(principalPayment, c.remainingBalance)
             THEN [c EXCEPT
                    !.yearlyInterestPaid = Add(@, interestPayment),
                    !.yearlyPrincipalPaid = Add(@, c.remainingBalance),
                    !.remainingBalance = Zero,
                    !.isLoanPaid = TRUE, !.pc = "yearEnd"]
             ELSE [c EXCEPT
                    !.yearlyPrincipalPaid = Add(@, principalPayment),
                    !.yearlyInterestPaid = Add(@, interestPayment),
                    !.remainingBalance = Sub(@, principalPayment),
                    !.month = @ + 1]

\* The interest still to pay on the balance over the remaining months.
RemainingInterest(c, totalPayments) ==
    LET remainingMonths == totalPayments - c.year * 12
        growth == Pow(Add(Num(1), c.monthlyRate), remainingMonths)
        newMonthlyPayment ==
            Div(Mul(c.remainingBalance, Mul(c.monthlyRate, growth)),
                Sub(growth, Num(1)))
    IN  IF Gt(c.remainingBalance, Zero) /\ remainingMonths > 0
           /\ Gt(c.monthlyRate, Zero)
        THEN Sub(Mul(newMonthlyPayment, Num(remainingMonths)), c.remainingBalance)
        ELSE Zero

\* The rest of a year of the main loop, after its monthly loop.
ChartYearEnd(c) ==
    LET totalPrincipalPaid == Add(c.totalPrincipalPaid, c.yearlyPrincipalPaid)
        totalInterestPaid == Add(c.totalInterestPaid, c.yearlyInterestPaid)
        d == [c EXCEPT !.totalPrincipalPaid = totalPrincipalPaid,
                       !.totalInterestPaid = totalInterestPaid]
        entry ==
            [year |-> c.year + 1, principalPaid |-> totalPrincipalPaid,
             interestPaid |-> totalInterestPaid,
             remainingBalance |-> c.remainingBalance,
             yearlyPrincipalPaid |-> c.yearlyPrincipalPaid,
             yearlyInterestPaid |-> c.yearlyInterestPaid,
             totalPrincipalRemaining |-> c.remainingBalance,
             totalInterestRemaining |-> RemainingInterest(c, c.loanTerm * 12),
             nextYearPrincipalPayment |->
                 IF c.year < c.loanTerm THEN c.yearlyPayments[c.year + 1].principal
                 ELSE Zero,
             nextYearInterestPayment |->
                 IF c.year < c.loanTerm THEN c.yearlyPayments[c.year + 1].interest
                 ELSE Zero]
        fill == [i \in 1..(c.loanTerm - 1 - c.year) |-> PaidOffEntry(d, c.year + i + 1)]
    IN  IF c.isLoanPaid /\ c.year < c.loanTerm - 1
        THEN [d EXCEPT !.yearlyData = Append(@, entry) \o fill, !.pc = "done"]
        ELSE [d EXCEPT !.yearlyData = Append(@, entry), !.year = @ + 1,
                       !.pc = "year"]

\* One step of the main loop of calculateAmortizationData.
ChartStep(c) ==
    IF c.pc = "year" THEN ChartYearHead(c)
    ELSE IF c.pc = "month" THEN ChartMonth(c)
    ELSE IF c.pc = "yearEnd" THEN ChartYearEnd(c)
    ELSE c

RECURSIVE ChartRun(_)
ChartRun(c) == IF c.pc \in {"done", "TypeError"} THEN c ELSE ChartRun(ChartStep(c))

\* calculateAmortizationData(): the state at its return (yearlyData is the
\* value returned), or the state at the TypeError it throws.
calculateAmortizationData(loanAmount, interestRate, loanTerm, monthlyOverpayment) ==
    ChartRun(ChartStart(loanAmount, interestRate, loanTerm, monthlyOverpayment))

----------------------------------------------------------------------------
(* Text of the input fields: a string is a sequence of characters *)

Digit == {"0", "1", "2", "3", "4", "5", "6", "7", "8", "9"}

DigitValue(c) ==
    CASE c = "0" -> 0 [] c = "1" -> 1 [] c = "2" -> 2 [] c = "3" -> 3
      [] c = "4" -> 4 [] c = "5" -> 5 [] c = "6" -> 6 [] c = "7" -> 7
      [] c = "8" -> 8 [] c = "9" -> 9

DigitChar(d) ==
    CASE d = 0 -> "0" [] d = 1 -> "1" [] d = 2 -> "2" [] d = 3 -> "3"
      [] d = 4 -> "4" [] d = 5 -> "5" [] d = 6 -> "6" [] d = 7 -> "7"
      [] d = 8 -> "8" [] d = 9 -> "9"

IsDigit(c) == c \in Digit

IsDigitOrComma(c) == c \in Digit \cup {","}

IsDigitOrDot(c) == c \in Digit \cup {"."}

IsNotComma(c) == c # ","

\* Number(s) of a string of digits; Number('') is 0.
RECURSIVE DigitsToNumber(_)
DigitsToNumber(s) ==
    IF s = <<>> THEN 0
    ELSE 10 * DigitsToNumber(SubSeq(s, 1, Len(s) - 1)) + DigitValue(s[Len(s)])

\* n.toString() of a non-negative integer.
RECURSIVE NumberToDigits(_)
NumberToDigits(n) ==
    IF n < 10 THEN <<DigitChar(n)>>
    ELSE Append(NumberToDigits(n \div 10), DigitChar(n % 10))

\* The digits with a comma before every group of three from the right.
RECURSIVE GroupThousands(_)
GroupThousands(s) ==
    IF Len(s) <= 3 THEN s
    ELSE GroupThousands(SubSeq(s, 1, Len(s) - 3)) \o <<",">>
            \o SubSeq(s, Len(s) - 2, Len(s))

\* Math.round of a finite number.
MathRound(x) == Num((2 * x[1] + x[2]) \div (2 * x[2]))

\* The longest prefix of digits.
RECURSIVE LeadingDigits(_)
LeadingDigits(s) ==
    IF s = <<>> THEN <<>>
    ELSE IF IsDigit(Head(s)) THEN <<Head(s)>> \o LeadingDigits(Tail(s))
    ELSE <<>>

RECURSIVE TenTo(_)
TenTo(k) == IF k = 0 THEN 1 ELSE 10 * TenTo(k - 1)

\* parseFloat of a string of digits and dots: the longest prefix that is a
\* decimal number, NaN when there is none.
parseFloat(s) ==
    LET whole == LeadingDigits(s)
        rest == SubSeq(s, Len(whole) + 1, Len(s))
        fraction == IF rest # <<>> /\ Head(rest) = "."
                    THEN LeadingDigits(Tail(rest)) ELSE <<>>
    IN  IF whole = <<>> /\ fraction = <<>> THEN NaN
        ELSE Norm(DigitsToNumber(whole) * TenTo(Len(fraction))
                      + DigitsToNumber(fraction),
                  TenTo(Len(fraction)))

\* x.toFixed(1) of a finite number that is not negative: the nearest
\* multiple of one tenth, the larger one of two.
toFixed1(x) ==
    LET tenths == IntOf(MathRound(Mul(x, Num(10))))
    IN  NumberToDigits(tenths \div 10) \o <<".", DigitChar(tenths % 10)>>

----------------------------------------------------------------------------
(* MortgagePayment: the form.  A page p is the state of one render:
   formData, inputValues, results, downPaymentPercent, isCalculating,
   focusedField, the pending timers of calculateMortgage (each with the
   formData its closure captured) and whether the tree was unmounted by an
   error. *)

CurrencyFields == {"homePrice", "downPayment", "monthlyOverpayment"}

FormFields == CurrencyFields \cup {"loanTerm", "interestRate"}

InputFields == FormFields \cup {"downPaymentPercent"}

NoField == "null"

\* results before the first setResults.
NoResults == [loanAmount |-> NaN, from |-> [f \in FormFields |-> NaN]]

\* formatNumberWithCommas of a whole number that is not negative.
formatNumberWithCommas(value) == GroupThousands(NumberToDigits(IntOf(value)))

\* parseFormattedNumber of digits and commas.
parseFormattedNumber(value) == Num(DigitsToNumber(SelectSeq(value, IsNotComma)))

\* The string with every dot after the first removed.
RECURSIVE KeepFirstDot(_)
KeepFirstDot(s) ==
    IF s = <<>> THEN <<>>
    ELSE IF Head(s) = "." THEN <<".">> \o SelectSeq(Tail(s), IsDigit)
    ELSE <<Head(s)>> \o KeepFirstDot(Tail(s))

\* What a handler or an effect leaves behind: the state of the next render
\* and whether setFormData was called (a new formData object).
Update(p, formDataSet) == [page |-> p, formDataSet |-> formDataSet]

handleInputFocus(p, name) ==
    LET value == p.inputValues[name]
    IN  Update([p EXCEPT
                  !.focusedField = name,
                  !.inputValues =
                      IF value = <<"0">> \/ value = <<"0", ",", "0", "0", "0">>
                      THEN [@ EXCEPT ![name] = <<>>] ELSE @],
               FALSE)

\* An empty field gets its default text and formData[name] = 0, whichever
\* field it is; for downPaymentPercent that is a key formData does not use.
handleInputBlur(p, name) ==
    LET value == p.inputValues[name]
        defaultValue == IF name = "interestRate" THEN <<"0", ".", "0">> ELSE <<"0">>
    IN  IF value = <<>>
        THEN Update([p EXCEPT
                       !.focusedField = NoField,
                       !.inputValues[name] = defaultValue,
                       !.formData = IF name \in FormFields
                                    THEN [@ EXCEPT ![name] = Zero] ELSE @],
                    TRUE)
        ELSE IF name \in CurrencyFields
        THEN Update([p EXCEPT
                       !.focusedField = NoField,
                       !.inputValues[name] =
                           formatNumberWithCommas(parseFormattedNumber(value))],
                    FALSE)
        ELSE Update([p EXCEPT !.focusedField = NoField], FALSE)

\* handleInputChange of homePrice, downPayment and monthlyOverpayment.
ChangeCurrency(p, name, value) ==
    LET cleanValue == SelectSeq(value, IsDigitOrComma)
        numericString == SelectSeq(cleanValue, IsNotComma)
        numericValue == Num(DigitsToNumber(numericString))
        cappedValue == Min(numericValue, p.formData.homePrice)
    IN  IF numericString = <<>>
        THEN Update([p EXCEPT !.inputValues[name] = <<>>], FALSE)
        ELSE Update([p EXCEPT
                       !.inputValues[name] = formatNumberWithCommas(numericValue),
                       !.formData[name] = IF name = "downPayment"
                                          THEN cappedValue ELSE numericValue],
                    TRUE)

\* handleInputChange of loanTerm.
ChangeLoanTerm(p, value) ==
    LET cleanValue == SelectSeq(value, IsDigit)
    IN  IF cleanValue # <<>>
        THEN Update([p EXCEPT !.inputValues.loanTerm = cleanValue,
                              !.formData.loanTerm = Num(DigitsToNumber(cleanValue))],
                    TRUE)
        ELSE Update([p EXCEPT !.inputValues.loanTerm = cleanValue], FALSE)

\* handleInputChange of interestRate.
ChangeInterestRate(p, value) ==
    LET cleanValue == SelectSeq(value, IsDigitOrDot)
        formattedValue == KeepFirstDot(cleanValue)
    IN  IF formattedValue # <<>> /\ formattedValue # <<".">>
        THEN Update([p EXCEPT !.inputValues.interestRate = formattedValue,
                              !.formData.interestRate = parseFloat(formattedValue)],
                    TRUE)
        ELSE Update([p EXCEPT !.inputValues.interestRate = formattedValue], FALSE)

\* handleInputChange is the onChange of the five fields of formData.
handleInputChange(p, name, value) ==
    IF name \in CurrencyFields THEN ChangeCurrency(p, name, value)
    ELSE IF name = "loanTerm" THEN ChangeLoanTerm(p, value)
    ELSE ChangeInterestRate(p, value)

\* parseFloat(value) || 0
ParseFloatOrZero(value) ==
    IF IsNaN(parseFloat(value)) THEN Zero ELSE parseFloat(value)

handlePercentChange(p, value) ==
    LET parsedValue == ParseFloatOrZero(value)
        cappedValue == Min(parsedValue, Num(100))
    IN  IF value = <<>>
        THEN Update([p EXCEPT !.inputValues.downPaymentPercent = value], FALSE)
        ELSE Update([p EXCEPT
                       !.downPaymentPercent = cappedValue,
                       !.inputValues.downPaymentPercent =
                           IF cappedValue # parsedValue
                           THEN NumberToDigits(IntOf(cappedValue)) ELSE value],
                    FALSE)

\* A call of calculateMortgage from the render p: a timer whose closure
\* holds p's formData.
calculateMortgage(p, next) ==
    [next EXCEPT !.isCalculating = TRUE,
                 !.timers = Append(@, p.formData)]

\* The record the timer of calculateMortgage passes to setResults, from the
\* formData its closure holds.
MortgageResults(formData) ==
    LET loanAmount == Sub(formData.homePrice, formData.downPayment)
        monthlyInterestRate == Div(Div(formData.interestRate, Num(100)), Num(12))
        numberOfPayments == Mul(formData.loanTerm, Num(12))
        principalAndInterest ==
            PrincipalAndInterest(loanAmount, monthlyInterestRate, numberOfPayments)
        totalInterest == Sub(Mul(principalAndInterest, numberOfPayments), loanAmount)
        withOverpayment ==
            calculateWithOverpayment(loanAmount, monthlyInterestRate, principalAndInterest,
                                     formData.monthlyOverpayment, numberOfPayments)
        overpaid == Gt(formData.monthlyOverpayment, Zero)
        higherRate == Add(formData.interestRate, Num(1))
        lowerRate == Max(Zero, Sub(formData.interestRate, Num(1)))
    IN  [monthlyPayment |-> principalAndInterest,
         principalAndInterest |-> principalAndInterest,
         totalPayment |-> Mul(principalAndInterest, numberOfPayments),
         totalInterest |-> totalInterest,
         loanAmount |-> loanAmount,
         totalInterestWithOverpayment |->
             IF overpaid THEN withOverpayment.totalInterest ELSE totalInterest,
         interestSaved |->
             IF overpaid THEN Sub(totalInterest, withOverpayment.totalInterest)
             ELSE Zero,
         newLoanTermMonths |->
             IF overpaid THEN Num(withOverpayment.months) ELSE numberOfPayments,
         monthsReduced |->
             IF overpaid THEN Sub(numberOfPayments, Num(withOverpayment.months))
             ELSE Zero,
         higherRatePayment |->
             calculateMonthlyPayment(loanAmount, higherRate, formData.loanTerm),
         lowerRatePayment |->
             calculateMonthlyPayment(loanAmount, lowerRate, formData.loanTerm)]

\* The timer body of calculateMortgage: setResults and, finally,
\* setIsCalculating(false).  results holds the loanAmount and the formData
\* the record was computed from; MortgageResults gives its other fields.
TimerBody(p) ==
    LET formData == Head(p.timers)
    IN  [p EXCEPT
           !.results = [loanAmount |-> Sub(formData.homePrice, formData.downPayment),
                        from |-> formData],
           !.isCalculating = FALSE,
           !.timers = Tail(@)]

\* The props of MortgageAmortizationChart in the render p.
ChartProps(p) ==
    [loanAmount |-> p.results.loanAmount,
     interestRate |-> p.formData.interestRate,
     loanTerm |-> p.formData.loanTerm,
     monthlyOverpayment |-> p.formData.monthlyOverpayment]

\* The chart's effect runs when the chart is mounted and when a prop changes.
ChartEffectRuns(prev, p) ==
    /\ p.results # NoResults
    /\ (prev.results = NoResults \/ ChartProps(prev) # ChartProps(p))

\* The effect on [downPaymentPercent, formData.homePrice, focusedField].
PercentEffectRuns(prev, p) ==
    /\ p.focusedField = "downPaymentPercent"
    /\ <<prev.downPaymentPercent, prev.formData.homePrice, prev.focusedField>>
         # <<p.downPaymentPercent, p.formData.homePrice, p.focusedField>>

PercentEffect(p) ==
    LET cappedPercentage == Min(p.downPaymentPercent, Num(100))
        newDownPayment ==
            MathRound(Mul(p.formData.homePrice, Div(cappedPercentage, Num(100))))
    IN  Update([p EXCEPT
                  !.formData.downPayment = newDownPayment,
                  !.inputValues.downPayment = formatNumberWithCommas(newDownPayment)],
               TRUE)

\* The effect on [formData.downPayment, formData.homePrice, focusedField].
DownPaymentEffectRuns(prev, p) ==
    /\ p.focusedField = "downPayment"
    /\ <<prev.formData.downPayment, prev.formData.homePrice, prev.focusedField>>
         # <<p.formData.downPayment, p.formData.homePrice, p.focusedField>>

AbsNumber(x) == IF x[1] < 0 THEN Neg(x) ELSE x

\* The second setInputValues spreads the same inputValues as the first and
\* replaces it.
DownPaymentEffect(p) ==
    LET cappedDownPayment == Min(p.formData.downPayment, p.formData.homePrice)
        capped == cappedDownPayment # p.formData.downPayment
        newPercent == Mul(Div(cappedDownPayment, p.formData.homePrice), Num(100))
        moved == Gt(AbsNumber(Sub(newPercent, p.downPaymentPercent)), <<1, 10>>)
    IN  Update([p EXCEPT
                  !.formData.downPayment = cappedDownPayment,
                  !.downPaymentPercent =
                      IF moved THEN parseFloat(toFixed1(newPercent)) ELSE @,
                  !.inputValues =
                      IF moved
                      THEN [@ EXCEPT !.downPaymentPercent = toFixed1(newPercent)]
                      ELSE IF capped
                      THEN [@ EXCEPT !.downPayment =
                                         formatNumberWithCommas(cappedDownPayment)]
                      ELSE @],
               capped)

\* The effect on [formData.homePrice, downPaymentPercent, focusedField].
HomePriceEffectRuns(prev, p) ==
    /\ p.focusedField = "homePrice"
    /\ <<prev.formData.homePrice, prev.downPaymentPercent, prev.focusedField>>
         # <<p.formData.homePrice, p.downPaymentPercent, p.focusedField>>

HomePriceEffect(p) ==
    LET newDownPayment ==
            MathRound(Mul(p.formData.homePrice, Div(p.downPaymentPercent, Num(100))))
    IN  Update([p EXCEPT
                  !.formData.downPayment = newDownPayment,
                  !.inputValues.downPayment = formatNumberWithCommas(newDownPayment)],
               TRUE)

\* The effects of the commit of render p after render prev, and of the
\* renders their state updates cause.  Every effect of a commit sees p; the
\* effect on [formData] calls calculateMortgage; an error thrown by the
\* chart's effect unmounts the tree, which has no error boundary.
RECURSIVE Commit(_, _, _)
Commit(prev, p, formDataSet) ==
    LET called == IF formDataSet THEN calculateMortgage(p, p) ELSE p
        u == IF PercentEffectRuns(prev, p) THEN PercentEffect(called)
             ELSE IF DownPaymentEffectRuns(prev, p) THEN DownPaymentEffect(called)
             ELSE IF HomePriceEffectRuns(prev, p) THEN HomePriceEffect(called)
             ELSE Update(called, FALSE)
    IN  IF ChartEffectRuns(prev, p) /\ NoYearlyPayments(p.formData.loanTerm)
        THEN [called EXCEPT !.crashed = TRUE]
        ELSE IF u.formDataSet \/ u.page.downPaymentPercent # p.downPaymentPercent
        THEN Commit(p, u.page, u.formDataSet)
        ELSE u.page

----------------------------------------------------------------------------
(* PensionProjection: the form.  A page q is the state of one render:
   formData, inputValues, results, isCalculating, focusedField,
   selectedYearIndex, allocationError and the pending timers of
   calculateProjection. *)

PensionCurrencyFields == {"currentPension", "monthlyContribution", "employerContribution"}

AgeFields == {"currentAge", "retirementAge"}

AllocationFields == {"stocksAllocation", "bondsAllocation", "cashAllocation"}

ReturnFields == {"stocksReturn", "bondsReturn", "cashReturn", "inflationRate"}

PensionFields ==
    PensionCurrencyFields \cup AgeFields \cup AllocationFields \cup ReturnFields

NoAllocationError == <<>>

NoProjection == [from |-> [f \in PensionFields |-> NaN]]

\* selectedYearIndex null.
NoYear == <<>>

PensionHandleInputFocus(q, name) ==
    LET value == q.inputValues[name]
    IN  Update([q EXCEPT
                  !.focusedField = name,
                  !.inputValues =
                      IF \/ value = <<"0">>
                         \/ value = <<"0", ",", "0", "0", "0">>
                         \/ value = <<"0", ".", "0">>
                      THEN [@ EXCEPT ![name] = <<>>] ELSE @],
               FALSE)

PensionHandleInputBlur(q, name) ==
    LET value == q.inputValues[name]
        defaultValue == IF name \in ReturnFields THEN <<"0", ".", "0">> ELSE <<"0">>
        numericValue == MathRound(parseFloat(value))
    IN  IF value = <<>>
        THEN Update([q EXCEPT !.focusedField = NoField,
                              !.inputValues[name] = defaultValue,
                              !.formData[name] = Zero],
                    TRUE)
        ELSE IF name \in PensionCurrencyFields
        THEN Update([q EXCEPT
                       !.focusedField = NoField,
                       !.inputValues[name] =
                           formatNumberWithCommas(parseFormattedNumber(value))],
                    FALSE)
        ELSE IF name \in AllocationFields
        THEN Update([q EXCEPT !.focusedField = NoField,
                              !.inputValues[name] = NumberToDigits(IntOf(numericValue)),
                              !.formData[name] = numericValue],
                    TRUE)
        ELSE Update([q EXCEPT !.focusedField = NoField], FALSE)

\* handleInputChange of the three currency fields.
PensionChangeCurrency(q, name, value) ==
    LET cleanValue == SelectSeq(value, IsDigitOrComma)
        numericString == SelectSeq(cleanValue, IsNotComma)
        numericValue == Num(DigitsToNumber(numericString))
    IN  IF numericString = <<>>
        THEN Update([q EXCEPT !.inputValues[name] = <<>>], FALSE)
        ELSE Update([q EXCEPT
                       !.inputValues[name] = formatNumberWithCommas(numericValue),
                       !.formData[name] = numericValue],
                    TRUE)

\* handleInputChange of a field of whole numbers within low..high: the two
\* ages (18..100) and the three allocations (0..100).
PensionChangeWhole(q, name, value, low, high) ==
    LET cleanValue == SelectSeq(value, IsDigit)
        numericValue == Num(DigitsToNumber(cleanValue))
    IN  IF cleanValue # <<>> /\ Ge(numericValue, Num(low)) /\ Le(numericValue, Num(high))
        THEN Update([q EXCEPT !.inputValues[name] = cleanValue,
                              !.formData[name] = numericValue],
                    TRUE)
        ELSE Update([q EXCEPT !.inputValues[name] = cleanValue], FALSE)

\* handleInputChange of the return rates and the inflation rate (0..30).
PensionChangeRate(q, name, value) ==
    LET cleanValue == SelectSeq(value, IsDigitOrDot)
        formattedValue == KeepFirstDot(cleanValue)
        numericValue == parseFloat(formattedValue)
    IN  IF /\ formattedValue # <<>> /\ formattedValue # <<".">>
           /\ Ge(numericValue, Zero) /\ Le(numericValue, Num(30))
        THEN Update([q EXCEPT !.inputValues[name] = formattedValue,
                              !.formData[name] = numericValue],
                    TRUE)
        ELSE Update([q EXCEPT !.inputValues[name] = formattedValue], FALSE)

PensionHandleInputChange(q, name, value) ==
    IF name \in PensionCurrencyFields THEN PensionChangeCurrency(q, name, value)
    ELSE IF name \in AgeFields THEN PensionChangeWhole(q, name, value, 18, 100)
    ELSE IF name \in AllocationFields THEN PensionChangeWhole(q, name, value, 0, 100)
    ELSE PensionChangeRate(q, name, value)

\* A call of calculateProjection from the render q: a timer whose closure
\* holds q's formData.
calculateProjection(q, next) ==
    [next EXCEPT !.isCalculating = TRUE,
                 !.timers = Append(@, q.formData)]

TotalAllocation(formData) ==
    Add(Add(formData.stocksAllocation, formData.bondsAllocation),
        formData.cashAllocation)

AllocationMessage(totalAllocation) ==
    <<"Asset allocation must total 100% (currently ">>
        \o NumberToDigits(IntOf(totalAllocation)) \o <<"%)">>

\* The effect on [formData] calling calculateProjection whatever the total.
PensionEffect_NoValidation(q) ==
    calculateProjection(q, [q EXCEPT !.allocationError = NoAllocationError])

\* The effect on [formData]: validate the allocation, then project.
PensionEffect(q) ==
    LET totalAllocation == TotalAllocation(q.formData)
    IN  IF totalAllocation # Num(100)
        THEN [q EXCEPT !.allocationError = AllocationMessage(totalAllocation)]
        ELSE calculateProjection(q, [q EXCEPT !.allocationError = NoAllocationError])

\* The effects of the commit of a render q.
PensionCommit(u) == IF u.formDataSet THEN PensionEffect(u.page) ELSE u.page

\* The timer body storing a projection whatever the two ages are.
ProjectionTimerBody_NoRefusal(q) ==
    LET formData == Head(q.timers)
        yearsToRetirement == Sub(formData.retirementAge, formData.currentAge)
    IN  [q EXCEPT !.results = [from |-> formData],
                  !.selectedYearIndex = yearsToRetirement,
                  !.isCalculating = FALSE,
                  !.timers = Tail(@)]

\* The timer body storing a projection and leaving selectedYearIndex alone.
ProjectionTimerBody_KeepsSelection(q) ==
    LET formData == Head(q.timers)
        yearsToRetirement == Sub(formData.retirementAge, formData.currentAge)
    IN  IF Le(yearsToRetirement, Zero)
        THEN [q EXCEPT !.isCalculating = FALSE, !.timers = Tail(@)]
        ELSE [q EXCEPT !.results = [from |-> formData],
                       !.isCalculating = FALSE,
                       !.timers = Tail(@)]

\* The timer body of calculateProjection.  With retirementAge <= currentAge
\* it throws before setResults and the error is caught; the yearly breakdown
\* has the years 0..yearsToRetirement.  results holds the formData the
\* projection was computed from.
ProjectionTimerBody(q) ==
    LET formData == Head(q.timers)
        yearsToRetirement == Sub(formData.retirementAge, formData.currentAge)
    IN  IF Le(yearsToRetirement, Zero)
        THEN [q EXCEPT !.isCalculating = FALSE, !.timers = Tail(@)]
        ELSE [q EXCEPT !.results = [from |-> formData],
                       !.selectedYearIndex = yearsToRetirement,
                       !.isCalculating = FALSE,
                       !.timers = Tail(@)]


\* The number of entries that the loop "for (year = 0; year <=
\* yearsToRetirement; year++)" pushes from the given year on.
\* The test "year <= yearsToRetirement" of a whole year is "year <= lastYear"
\* with lastYear the whole part of yearsToRetirement (-1 when it is NaN).
RECURSIVE BreakdownEntries(_, _)
BreakdownEntries(lastYear, year) ==
    IF year <= lastYear THEN 1 + BreakdownEntries(lastYear, year + 1) ELSE 0

\* The last year for which "year <= yearsToRetirement" holds.
LastLoopYear(yearsToRetirement) ==
    IF IsNaN(yearsToRetirement) THEN -1 ELSE IntOf(yearsToRetirement)

\* The age of the entry pushed for a year of the loop.
BreakdownAge(formData, year) == Add(formData.currentAge, Num(year))

\* results.yearlyBreakdown.length of the render q.
BreakdownLength(q) ==
    BreakdownEntries(
        LastLoopYear(Sub(q.results.from.retirementAge, q.results.from.currentAge)), 0)

\* setSelectedYearIndex(index) of the year slider and of a bar of the chart.
SelectYearIndex(q, index) == [q EXCEPT !.selectedYearIndex = Num(index)]


\* The weighted average return of the three asset classes.
WeightedReturn(formData) ==
    Add(Add(Mul(Div(formData.stocksAllocation, Num(100)), formData.stocksReturn),
            Mul(Div(formData.bondsAllocation, Num(100)), formData.bondsReturn)),
        Mul(Div(formData.cashAllocation, Num(100)), formData.cashReturn))

\* The growth of a year applied to year 0 as well.
YearGrowth_EveryYear(year, pensionValue, weightedReturn) ==
    Mul(pensionValue, Div(weightedReturn, Num(100)))

\* yearGrowth: none in year 0, the initial state.
YearGrowth(year, pensionValue, weightedReturn) ==
    IF year > 0 THEN Mul(pensionValue, Div(weightedReturn, Num(100))) ELSE Zero

\* The value of an asset class rounded to whole pounds.
AssetValue_Rounded(pensionValue, allocation) ==
    MathRound(Mul(pensionValue, Div(allocation, Num(100))))

\* stocksValue, bondsValue, cashValue
AssetValue(pensionValue, allocation) ==
    Mul(pensionValue, Div(allocation, Num(100)))

\* The timer body up to its loop with totalContributions starting at 0.
ProjectionStart_ContributionsFromZero(formData, thisYear) ==
    LET yearsToRetirement == Sub(formData.retirementAge, formData.currentAge)
    IN  [formData |-> formData,
         currentYear |-> thisYear,
         yearsToRetirement |-> yearsToRetirement,
         weightedReturn |-> WeightedReturn(formData),
         pensionValue |-> formData.currentPension,
         totalContributions |-> Zero,
         totalEmployerContributions |-> Zero,
         totalGrowth |-> Zero,
         annualContribution |-> Mul(formData.monthlyContribution, Num(12)),
         annualEmployerContribution |-> Mul(formData.employerContribution, Num(12)),
         year |-> 0,
         yearlyBreakdown |-> <<>>,
         pc |-> IF Le(yearsToRetirement, Zero) THEN "Error" ELSE "year"]

\* calculateProjection's timer body up to its loop, in the calendar year
\* thisYear; it throws when retirementAge <= currentAge.
ProjectionStart(formData, thisYear) ==
    LET yearsToRetirement == Sub(formData.retirementAge, formData.currentAge)
    IN  [formData |-> formData,
         currentYear |-> thisYear,
         yearsToRetirement |-> yearsToRetirement,
         weightedReturn |-> WeightedReturn(formData),
         pensionValue |-> formData.currentPension,
         totalContributions |-> formData.currentPension,
         totalEmployerContributions |-> Zero,
         totalGrowth |-> Zero,
         annualContribution |-> Mul(formData.monthlyContribution, Num(12)),
         annualEmployerContribution |-> Mul(formData.employerContribution, Num(12)),
         year |-> 0,
         yearlyBreakdown |-> <<>>,
         pc |-> IF Le(yearsToRetirement, Zero) THEN "Error" ELSE "year"]

\* One pass through "for (year = 0; year <= yearsToRetirement; year++)".
ProjectionYear(c) ==
    LET yearGrowth == YearGrowth(c.year, c.pensionValue, c.weightedReturn)
        grows == c.year > 0
        pensionValue ==
            IF grows
            THEN Add(c.pensionValue,
                     Add(Add(yearGrowth, c.annualContribution),
                         c.annualEmployerContribution))
            ELSE c.pensionValue
        inflationFactor ==
            Pow(Add(Num(1), Div(c.formData.inflationRate, Num(100))), c.year)
        entry ==
            [age |-> Add(c.formData.currentAge, Num(c.year)),
             year |-> c.currentYear + c.year,
             pensionValue |-> pensionValue,
             realPensionValue |-> Div(pensionValue, inflationFactor),
             annualContribution |-> IF grows THEN c.annualContribution ELSE Zero,
             annualEmployerContribution |->
                 IF grows THEN c.annualEmployerContribution ELSE Zero,
             annualGrowth |-> yearGrowth,
             stocks |-> AssetValue(pensionValue, c.formData.stocksAllocation),
             bonds |-> AssetValue(pensionValue, c.formData.bondsAllocation),
             cash |-> AssetValue(pensionValue, c.formData.cashAllocation)]
    IN  IF ~Le(Num(c.year), c.yearsToRetirement) THEN [c EXCEPT !.pc = "results"]
        ELSE [c EXCEPT
               !.pensionValue = pensionValue,
               !.totalContributions =
                   IF grows THEN Add(@, c.annualContribution) ELSE @,
               !.totalEmployerContributions =
                   IF grows THEN Add(@, c.annualEmployerContribution) ELSE @,
               !.totalGrowth = IF grows THEN Add(@, yearGrowth) ELSE @,
               !.yearlyBreakdown = Append(@, entry),
               !.year = @ + 1]

\* The record of setResults.
ProjectionResults(c) ==
    [finalPensionNominal |-> c.pensionValue,
     finalPensionReal |-> c.yearlyBreakdown[Len(c.yearlyBreakdown)].realPensionValue,
     totalContributions |-> c.totalContributions,
     totalEmployerContributions |-> c.totalEmployerContributions,
     totalInvestmentGrowth |-> c.totalGrowth,
     yearlyBreakdown |-> c.yearlyBreakdown]

----------------------------------------------------------------------------
(* PurchasingPower (src/src/pages/TakeHomePay.tsx): the calculation *)

\* The annual rates of the table in tenths of a percent.
InflationTenths ==
    1980 :> 180 @@ 1981 :> 119 @@ 1982 :> 86 @@ 1983 :> 46 @@ 1984 :> 50 @@
    1985 :> 61 @@ 1986 :> 34 @@ 1987 :> 42 @@ 1988 :> 49 @@ 1989 :> 78 @@
    1990 :> 95 @@ 1991 :> 59 @@ 1992 :> 37 @@ 1993 :> 16 @@ 1994 :> 24 @@
    1995 :> 35 @@ 1996 :> 24 @@ 1997 :> 31 @@ 1998 :> 34 @@ 1999 :> 15 @@
    2000 :> 30 @@ 2001 :> 18 @@ 2002 :> 17 @@ 2003 :> 29 @@ 2004 :> 30 @@
    2005 :> 28 @@ 2006 :> 32 @@ 2007 :> 43 @@ 2008 :> 40 @@ 2009 :> -5 @@
    2010 :> 46 @@ 2011 :> 52 @@ 2012 :> 32 @@ 2013 :> 30 @@ 2014 :> 24 @@
    2015 :> 10 @@ 2016 :> 18 @@ 2017 :> 36 @@ 2018 :> 33 @@ 2019 :> 26 @@
    2020 :> 15 @@ 2021 :> 41 @@ 2022 :> 90 @@ 2023 :> 67 @@ 2024 :> 32

ukInflationData == [year \in DOMAIN InflationTenths |-> Norm(InflationTenths[year], 10)]

\* Math.min(...Object.keys(ukInflationData).map(Number))
earliestYear == CHOOSE y \in DOMAIN ukInflationData : \A z \in DOMAIN ukInflationData : y <= z

\* The latest year of ukInflationData.
LatestYear == CHOOSE y \in DOMAIN ukInflationData : \A z \in DOMAIN ukInflationData : z <= y

\* The rate of every year is the fallback.
InflationRateOf_AlwaysDefault(year) == Num(2)

\* ukInflationData[year] || 2.0
InflationRateOf(year) ==
    IF year \in DOMAIN ukInflationData /\ ukInflationData[year] # Zero
    THEN ukInflationData[year]
    ELSE Num(2)

\* The smaller and the larger of two whole years.
MinYear(a, b) == IF b < a THEN b ELSE a

MaxYear(a, b) == IF a < b THEN b ELSE a

\* validStartYear
ValidStartYear(formData) ==
    MaxYear(earliestYear, MinYear(IntOf(formData.startYear), IntOf(formData.endYear)))

\* validEndYear, in the calendar year thisYear
ValidEndYear(formData, thisYear) ==
    MinYear(thisYear, MaxYear(IntOf(formData.endYear), ValidStartYear(formData)))

\* calculatePurchasingPower's timer body up to its loop.
PowerStart(formData, thisYear) ==
    [formData |-> formData,
     currentYear |-> thisYear,
     validStartYear |-> ValidStartYear(formData),
     validEndYear |-> ValidEndYear(formData, thisYear),
     year |-> ValidStartYear(formData),
     currentAmount |-> formData.amount,
     yearlyBreakdown |-> <<>>,
     pc |-> "year"]

\* "if (year < validEndYear) currentAmount = currentAmount * (1 + inflationRate / 100)"
NextAmount(year, validEndYear, currentAmount, inflationRate) ==
    IF year < validEndYear
    THEN Mul(currentAmount, Add(Num(1), Div(inflationRate, Num(100))))
    ELSE currentAmount

\* One pass through "for (year = validStartYear; year <= validEndYear; year++)".
PowerYear(c) ==
    LET inflationRate == InflationRateOf(c.year)
    IN  IF ~(c.year <= c.validEndYear) THEN [c EXCEPT !.pc = "results"]
        ELSE [c EXCEPT
               !.yearlyBreakdown =
                   Append(@, [year |-> c.year, amount |-> c.currentAmount,
                              inflationRate |-> inflationRate]),
               !.currentAmount =
                   NextAmount(c.year, c.validEndYear, c.currentAmount, inflationRate),
               !.year = @ + 1]

\* Math.pow(x, 1 / n) - 1 for a whole n > 0: the root itself is kept as a
\* term <<"root", x, n>> unless n = 1.
AverageRate(x, n) ==
    IF n = 1 THEN <<"exact", Sub(x, Num(1))>> ELSE <<"root", x, n>>

\* averageInflation * 100
AveragePercent(a) ==
    IF a[1] = "exact" THEN <<"exact", Mul(a[2], Num(100))>> ELSE <<"root%", a[2], a[3]>>

\* percentageChange
PercentageChange(adjustedAmount, amount) ==
    Mul(Div(Sub(adjustedAmount, amount), amount), Num(100))

\* The record of setResults.
PowerResults(c) ==
    LET amount == c.formData.amount
        adjustedAmount == c.yearlyBreakdown[Len(c.yearlyBreakdown)].amount
        yearDiff == c.validEndYear - c.validStartYear
        averageInflation ==
            IF yearDiff > 0 THEN AverageRate(Div(adjustedAmount, amount), yearDiff)
            ELSE <<"exact", Zero>>
    IN  [originalAmount |-> amount,
         adjustedAmount |-> adjustedAmount,
         percentageChange |-> PercentageChange(adjustedAmount, amount),
         inflationFactor |-> Div(adjustedAmount, amount),
         averageInflation |-> AveragePercent(averageInflation),
         yearlyBreakdown |-> c.yearlyBreakdown]

\* ---- PurchasingPower: the form.  A page r is the state of one render:
\* formData, inputValues, results, isCalculating, focusedField and the
\* pending timers of calculatePurchasingPower, each with the formData of the
\* render that set it. ----

YearFields == {"startYear", "endYear"}

PowerFields == {"amount"} \cup YearFields

\* parseInt(value, 10) of a text: NaN when it does not start with a digit.
parseInt(value) ==
    IF LeadingDigits(value) = <<>> THEN NaN
    ELSE Num(DigitsToNumber(LeadingDigits(value)))

PowerHandleInputFocus(r, name) ==
    LET value == r.inputValues[name]
    IN  Update([r EXCEPT
                  !.focusedField = name,
                  !.inputValues =
                      IF value = <<"0">> \/ value = <<"0", ",", "0", "0", "0">>
                      THEN [@ EXCEPT ![name] = <<>>] ELSE @],
               FALSE)

\* The year stored by the blur of a year field that holds numericValue.
BlurredYear(r, name, numericValue, thisYear) ==
    IF name = "startYear"
    THEN MaxYear(earliestYear, MinYear(numericValue, IntOf(r.formData.endYear)))
    ELSE MaxYear(IntOf(r.formData.startYear), MinYear(numericValue, thisYear))

PowerHandleInputBlur(r, name, thisYear) ==
    LET value == r.inputValues[name]
        numericValue == BlurredYear(r, name, IntOf(parseInt(value)), thisYear)
    IN  IF value = <<>>
        THEN Update([r EXCEPT !.focusedField = NoField,
                              !.inputValues[name] = <<"0">>,
                              !.formData[name] = Zero],
                    TRUE)
        ELSE IF name = "amount"
        THEN Update([r EXCEPT
                       !.focusedField = NoField,
                       !.inputValues[name] =
                           formatNumberWithCommas(parseFormattedNumber(value))],
                    FALSE)
        ELSE Update([r EXCEPT !.focusedField = NoField,
                              !.inputValues[name] = NumberToDigits(numericValue),
                              !.formData[name] = Num(numericValue)],
                    TRUE)

\* handleInputChange of the amount.
PowerChangeAmount(r, value) ==
    LET cleanValue == SelectSeq(value, IsDigitOrComma)
        numericString == SelectSeq(cleanValue, IsNotComma)
        numericValue == Num(DigitsToNumber(numericString))
    IN  IF numericString = <<>>
        THEN Update([r EXCEPT !.inputValues["amount"] = <<>>], FALSE)
        ELSE Update([r EXCEPT !.inputValues["amount"] =
                                  formatNumberWithCommas(numericValue),
                              !.formData["amount"] = numericValue],
                    TRUE)

\* handleInputChange of a year field: a year outside earliestYear..currentYear
\* stays in the text only.
PowerChangeYear(r, name, value, thisYear) ==
    LET cleanValue == SelectSeq(value, IsDigit)
        numericValue == DigitsToNumber(cleanValue)
    IN  IF /\ cleanValue # <<>>
           /\ numericValue >= earliestYear
           /\ numericValue <= thisYear
        THEN Update([r EXCEPT !.inputValues[name] = cleanValue,
                              !.formData[name] = Num(numericValue)],
                    TRUE)
        ELSE Update([r EXCEPT !.inputValues[name] = cleanValue], FALSE)

PowerHandleInputChange(r, name, value, thisYear) ==
    IF name = "amount" THEN PowerChangeAmount(r, value)
    ELSE PowerChangeYear(r, name, value, thisYear)

\* calculatePurchasingPower called in render r; the state being built is next.
calculatePurchasingPower(r, next) ==
    [next EXCEPT !.isCalculating = TRUE,
                 !.timers = Append(@, r.formData)]

\* The effect on [formData].
PowerCommit(u) ==
    IF u.formDataSet THEN calculatePurchasingPower(u.page, u.page) ELSE u.page

\* The timer body of calculatePurchasingPower.  results holds the formData
\* the walk was computed from; with no year to walk the read of the last
\* entry throws and the error is caught.
PowerTimerBody(r, thisYear) ==
    LET form == Head(r.timers)
    IN  IF ValidStartYear(form) > ValidEndYear(form, thisYear)
        THEN [r EXCEPT !.isCalculating = FALSE, !.timers = Tail(@)]
        ELSE [r EXCEPT !.results = [from |-> form],
                       !.isCalculating = FALSE,
                       !.timers = Tail(@)]

\* disabled of the Calculate button
PowerButtonDisabled(r, thisYear) ==
    \/ r.isCalculating
    \/ Lt(parseInt(r.inputValues.startYear), Num(earliestYear))
    \/ Gt(parseInt(r.inputValues.endYear), Num(thisYear))
    \/ Lt(parseInt(r.inputValues.endYear), parseInt(r.inputValues.startYear))

----------------------------------------------------------------------------
(* CarPayment: the form.  A page c is the state of one render: formData,
   inputValues, results, isCalculating, focusedField, depositPercent,
   balloonPercent and the pending timers of calculateCarLoan, each with the
   formData its closure captured.  Every effect of a commit reads the state
   of the render it belongs to; of several calls of one setter in a commit
   the last one is the state of the next render. *)

CarCurrencyFields == {"carPrice", "deposit", "balloonPayment"}

CarFormFields == CarCurrencyFields \cup {"loanTerm", "interestRate"}

CarPercentFields == {"depositPercent", "balloonPercent"}

CarInputFields == CarFormFields \cup CarPercentFields

\* The balloon fields are rendered for 'pcp' only.
CarFieldsShown(c) ==
    IF c.formData.financeType = "pcp" THEN CarInputFields
    ELSE CarInputFields \ {"balloonPayment", "balloonPercent"}

\* results before the first setResults.
NoCarResults ==
    [from |-> [carPrice |-> NaN, deposit |-> NaN, loanTerm |-> NaN,
               interestRate |-> NaN, balloonPayment |-> NaN,
               financeType |-> "null"]]

\* The state of the first render.
CarFirstRender ==
    [formData |-> [carPrice |-> Num(20000), deposit |-> Num(2000),
                   loanTerm |-> Num(48), interestRate |-> <<69, 10>>,
                   balloonPayment |-> Zero, financeType |-> "hp"],
     inputValues |-> [carPrice |-> <<"2", "0", ",", "0", "0", "0">>,
                      deposit |-> <<"2", ",", "0", "0", "0">>,
                      loanTerm |-> <<"4", "8">>,
                      interestRate |-> <<"6", ".", "9">>,
                      balloonPayment |-> <<"0">>,
                      depositPercent |-> <<"1", "0">>,
                      balloonPercent |-> <<"0">>,
                      financeType |-> "hp"],
     results |-> NoCarResults,
     isCalculating |-> FALSE,
     focusedField |-> NoField,
     depositPercent |-> Num(10),
     balloonPercent |-> Zero,
     timers |-> <<>>]

CarHandleInputFocus(c, name) ==
    LET value == c.inputValues[name]
    IN  Update([c EXCEPT
                  !.focusedField = name,
                  !.inputValues =
                      IF value = <<"0">> \/ value = <<"0", ",", "0", "0", "0">>
                      THEN [@ EXCEPT ![name] = <<>>] ELSE @],
               FALSE)

\* An empty field gets its default text and formData[name] = 0, whichever
\* field it is; for the two percent fields that is a key formData does not
\* use, in a new formData object.
CarHandleInputBlur(c, name) ==
    LET value == c.inputValues[name]
        defaultValue == IF name = "interestRate" THEN <<"0", ".", "0">> ELSE <<"0">>
    IN  IF value = <<>>
        THEN Update([c EXCEPT
                       !.focusedField = NoField,
                       !.inputValues[name] = defaultValue,
                       !.formData = IF name \in CarFormFields
                                    THEN [@ EXCEPT ![name] = Zero] ELSE @],
                    TRUE)
        ELSE IF name \in CarCurrencyFields
        THEN Update([c EXCEPT
                       !.focusedField = NoField,
                       !.inputValues[name] =
                           formatNumberWithCommas(parseFormattedNumber(value))],
                    FALSE)
        ELSE Update([c EXCEPT !.focusedField = NoField], FALSE)

\* handleInputChange of the select element.
ChangeFinanceTypeTo(c, value) ==
    Update([c EXCEPT !.inputValues.financeType = value,
                     !.formData.financeType = value],
           TRUE)

\* handleInputChange of carPrice, deposit and balloonPayment.
CarChangeCurrency(c, name, value) ==
    LET cleanValue == SelectSeq(value, IsDigitOrComma)
        numericString == SelectSeq(cleanValue, IsNotComma)
        numericValue == Num(DigitsToNumber(numericString))
    IN  IF numericString = <<>>
        THEN Update([c EXCEPT !.inputValues[name] = <<>>], FALSE)
        ELSE Update([c EXCEPT
                       !.inputValues[name] = formatNumberWithCommas(numericValue),
                       !.formData[name] = numericValue],
                    TRUE)

\* handleInputChange of loanTerm.
CarChangeLoanTerm(c, value) ==
    LET cleanValue == SelectSeq(value, IsDigit)
    IN  IF cleanValue # <<>>
        THEN Update([c EXCEPT !.inputValues.loanTerm = cleanValue,
                              !.formData.loanTerm = Num(DigitsToNumber(cleanValue))],
                    TRUE)
        ELSE Update([c EXCEPT !.inputValues.loanTerm = cleanValue], FALSE)

\* handleInputChange of interestRate.
CarChangeInterestRate(c, value) ==
    LET cleanValue == SelectSeq(value, IsDigitOrDot)
        formattedValue == KeepFirstDot(cleanValue)
    IN  IF formattedValue # <<>> /\ formattedValue # <<".">>
        THEN Update([c EXCEPT !.inputValues.interestRate = formattedValue,
                              !.formData.interestRate = parseFloat(formattedValue)],
                    TRUE)
        ELSE Update([c EXCEPT !.inputValues.interestRate = formattedValue], FALSE)

\* handleInputChange of depositPercent and balloonPercent: the percentage
\* typed is stored as it is.
CarChangePercent(c, name, value) ==
    LET cleanValue == SelectSeq(value, IsDigitOrDot)
        formattedValue == KeepFirstDot(cleanValue)
    IN  IF formattedValue # <<>> /\ formattedValue # <<".">>
        THEN Update([c EXCEPT !.inputValues[name] = formattedValue,
                              ![name] = parseFloat(formattedValue)],
                    FALSE)
        ELSE Update([c EXCEPT !.inputValues[name] = formattedValue], FALSE)

\* handleInputChange is the onChange of the seven input fields.
CarHandleInputChange(c, name, value) ==
    IF name \in CarCurrencyFields THEN CarChangeCurrency(c, name, value)
    ELSE IF name = "loanTerm" THEN CarChangeLoanTerm(c, value)
    ELSE IF name = "interestRate" THEN CarChangeInterestRate(c, value)
    ELSE CarChangePercent(c, name, value)

\* The step of the - and + buttons of carPrice and loanTerm.
AdjustStep(field) == IF field = "carPrice" THEN 1000 ELSE 6

\* handleAdjustValue of carPrice and loanTerm, whose new value is shown by
\* formatNumberWithCommas.
handleAdjustValue(c, field, increment) ==
    LET currentValue == c.formData[field]
        step == Num(AdjustStep(field))
        newValue == IF increment THEN Add(currentValue, step)
                    ELSE Max(Zero, Sub(currentValue, step))
    IN  Update([c EXCEPT !.formData[field] = newValue,
                         !.inputValues[field] = formatNumberWithCommas(newValue)],
               TRUE)

\* A call of calculateCarLoan from the render c: a timer whose closure
\* holds c's formData.
calculateCarLoan(c, next) ==
    [next EXCEPT !.isCalculating = TRUE,
                 !.timers = Append(@, c.formData)]

\* The 'pcp' branch of the monthly payment of calculateCarLoan.
ContractPurchasePayment(loanAmount, interestRate, loanTerm, balloonPayment) ==
    LET monthlyInterestRate == Div(Div(interestRate, Num(100)), Num(12))
        growth == Pow(Add(Num(1), monthlyInterestRate), IntOf(loanTerm))
        amountToFinance == Sub(loanAmount, balloonPayment)
    IN  IF Gt(monthlyInterestRate, Zero)
        THEN Div(Mul(Sub(loanAmount, Div(balloonPayment, growth)),
                     Mul(monthlyInterestRate, growth)),
                 Sub(growth, Num(1)))
        ELSE Div(amountToFinance, loanTerm)

\* The record the timer of calculateCarLoan passes to setResults, from the
\* formData its closure holds.
CarLoanResults(form) ==
    LET loanAmount == Sub(form.carPrice, form.deposit)
        monthlyPayment ==
            IF form.financeType = "hp"
            THEN HirePurchasePayment(loanAmount, form.interestRate, form.loanTerm)
            ELSE IF form.financeType = "pcp"
            THEN ContractPurchasePayment(loanAmount, form.interestRate,
                                         form.loanTerm, form.balloonPayment)
            ELSE Zero
        totalPayments == Mul(monthlyPayment, form.loanTerm)
        totalInterest == Sub(totalPayments, Sub(loanAmount, form.balloonPayment))
        totalCost == Add(Add(form.deposit, totalPayments),
                         IF form.financeType = "pcp" THEN form.balloonPayment ELSE Zero)
    IN  [monthlyPayment |-> monthlyPayment,
         totalInterest |-> totalInterest,
         totalCost |-> totalCost,
         loanAmount |-> loanAmount,
         balloonPayment |-> form.balloonPayment,
         apr |-> Mul(form.interestRate, <<11, 10>>)]

\* The timer body of calculateCarLoan: setResults and, finally,
\* setIsCalculating(false).  results holds the formData the record was
\* computed from; CarLoanResults gives its fields.
CarTimerBody(c) ==
    [c EXCEPT !.results = [from |-> Head(c.timers)],
              !.isCalculating = FALSE,
              !.timers = Tail(@)]

\* setFormData and setInputValues called by an effect of the render c,
\* replacing what an earlier call of the same commit left in u.
SetFormData(u, form) == Update([u.page EXCEPT !.formData = form], TRUE)

SetInputValues(u, values) == Update([u.page EXCEPT !.inputValues = values], u.formDataSet)

\* The effect on [depositPercent, formData.carPrice, focusedField].
DepositPercentEffectRuns(prev, c) ==
    /\ c.focusedField = "depositPercent"
    /\ <<prev.depositPercent, prev.formData.carPrice, prev.focusedField>>
         # <<c.depositPercent, c.formData.carPrice, c.focusedField>>

DepositPercentEffect(c, u) ==
    LET cappedPercentage == Min(c.depositPercent, Num(100))
        newDeposit ==
            MathRound(Mul(c.formData.carPrice, Div(cappedPercentage, Num(100))))
    IN  SetInputValues(
            SetFormData(u, [c.formData EXCEPT !.deposit = newDeposit]),
            [c.inputValues EXCEPT !.deposit = formatNumberWithCommas(newDeposit)])

\* The effect on [formData.deposit, formData.carPrice, focusedField].
DepositEffectRuns(prev, c) ==
    /\ c.focusedField = "deposit"
    /\ <<prev.formData.deposit, prev.formData.carPrice, prev.focusedField>>
         # <<c.formData.deposit, c.formData.carPrice, c.focusedField>>

\* The second setInputValues spreads the same inputValues as the first and
\* replaces it.
DepositEffect(c, u) ==
    LET cappedDeposit == Min(c.formData.deposit, c.formData.carPrice)
        capped == cappedDeposit # c.formData.deposit
        newPercent == Mul(Div(cappedDeposit, c.formData.carPrice), Num(100))
        moved == Gt(AbsNumber(Sub(newPercent, c.depositPercent)), <<1, 10>>)
        u1 == IF capped
              THEN SetInputValues(
                       SetFormData(u, [c.formData EXCEPT !.deposit = cappedDeposit]),
                       [c.inputValues EXCEPT
                          !.deposit = formatNumberWithCommas(cappedDeposit)])
              ELSE u
    IN  IF moved
        THEN SetInputValues(
                 Update([u1.page EXCEPT
                           !.depositPercent = parseFloat(toFixed1(newPercent))],
                        u1.formDataSet),
                 [c.inputValues EXCEPT !.depositPercent = toFixed1(newPercent)])
        ELSE u1

\* The effect on [formData.carPrice, depositPercent, balloonPercent,
\* focusedField, formData.financeType].  Its two calls of setFormData spread
\* the same formData.
CarPriceEffectRuns(prev, c) ==
    /\ c.focusedField = "carPrice"
    /\ <<prev.formData.carPrice, prev.depositPercent, prev.balloonPercent,
         prev.focusedField, prev.formData.financeType>>
         # <<c.formData.carPrice, c.depositPercent, c.balloonPercent,
             c.focusedField, c.formData.financeType>>

CarPriceEffect(c, u) ==
    LET newDeposit ==
            MathRound(Mul(c.formData.carPrice, Div(c.depositPercent, Num(100))))
        newBalloon ==
            MathRound(Mul(c.formData.carPrice, Div(c.balloonPercent, Num(100))))
        u1 == SetInputValues(
                  SetFormData(u, [c.formData EXCEPT !.deposit = newDeposit]),
                  [c.inputValues EXCEPT !.deposit = formatNumberWithCommas(newDeposit)])
    IN  IF c.formData.financeType = "pcp"
        THEN SetInputValues(
                 SetFormData(u1, [c.formData EXCEPT !.balloonPayment = newBalloon]),
                 [c.inputValues EXCEPT
                    !.balloonPayment = formatNumberWithCommas(newBalloon)])
        ELSE u1

\* The effect on [balloonPercent, formData.carPrice, focusedField].
BalloonPercentEffectRuns(prev, c) ==
    /\ c.focusedField = "balloonPercent"
    /\ <<prev.balloonPercent, prev.formData.carPrice, prev.focusedField>>
         # <<c.balloonPercent, c.formData.carPrice, c.focusedField>>

BalloonPercentEffect(c, u) ==
    LET cappedPercentage == Min(c.balloonPercent, Num(60))
        newBalloon ==
            MathRound(Mul(c.formData.carPrice, Div(cappedPercentage, Num(100))))
    IN  SetInputValues(
            SetFormData(u, [c.formData EXCEPT !.balloonPayment = newBalloon]),
            [c.inputValues EXCEPT
               !.balloonPayment = formatNumberWithCommas(newBalloon)])

\* The effect on [formData.balloonPayment, formData.carPrice, focusedField].
BalloonPaymentEffectRuns(prev, c) ==
    /\ c.focusedField = "balloonPayment"
    /\ <<prev.formData.balloonPayment, prev.formData.carPrice, prev.focusedField>>
         # <<c.formData.balloonPayment, c.formData.carPrice, c.focusedField>>

BalloonPaymentEffect(c, u) ==
    LET maxBalloon == Mul(c.formData.carPrice, <<6, 10>>)
        cappedBalloon == Min(c.formData.balloonPayment, maxBalloon)
        capped == cappedBalloon # c.formData.balloonPayment
        newPercent == Mul(Div(cappedBalloon, c.formData.carPrice), Num(100))
        moved == Gt(AbsNumber(Sub(newPercent, c.balloonPercent)), <<1, 10>>)
        u1 == IF capped
              THEN SetInputValues(
                       SetFormData(u, [c.formData EXCEPT
                                         !.balloonPayment = cappedBalloon]),
                       [c.inputValues EXCEPT
                          !.balloonPayment = formatNumberWithCommas(cappedBalloon)])
              ELSE u
    IN  IF moved
        THEN SetInputValues(
                 Update([u1.page EXCEPT
                           !.balloonPercent = parseFloat(toFixed1(newPercent))],
                        u1.formDataSet),
                 [c.inputValues EXCEPT !.balloonPercent = toFixed1(newPercent)])
        ELSE u1

\* The effect on [formData.financeType].
FinanceTypeEffectRuns(prev, c) ==
    prev.formData.financeType # c.formData.financeType

FinanceTypeEffect_KeepsPercent(c, u) ==
    LET defaultBalloon == MathRound(Mul(c.formData.carPrice, <<3, 10>>))
    IN  IF c.formData.financeType = "hp"
        THEN SetInputValues(
                 SetFormData(u, [c.formData EXCEPT !.balloonPayment = Zero]),
                 [c.inputValues EXCEPT !.balloonPayment = <<"0">>,
                                       !.balloonPercent = <<"0">>])
        ELSE IF c.formData.financeType = "pcp" /\ c.formData.balloonPayment = Zero
        THEN SetInputValues(
                 SetFormData(u, [c.formData EXCEPT !.balloonPayment = defaultBalloon]),
                 [c.inputValues EXCEPT
                    !.balloonPayment = formatNumberWithCommas(defaultBalloon),
                    !.balloonPercent = <<"3", "0">>])
        ELSE u

FinanceTypeEffect(c, u) ==
    LET defaultBalloon == MathRound(Mul(c.formData.carPrice, <<3, 10>>))
    IN  IF c.formData.financeType = "hp"
        THEN LET v == SetInputValues(
                          SetFormData(u, [c.formData EXCEPT !.balloonPayment = Zero]),
                          [c.inputValues EXCEPT !.balloonPayment = <<"0">>,
                                                !.balloonPercent = <<"0">>])
             IN  Update([v.page EXCEPT !.balloonPercent = Zero], v.formDataSet)
        ELSE IF c.formData.financeType = "pcp" /\ c.formData.balloonPayment = Zero
        THEN LET v == SetInputValues(
                          SetFormData(u, [c.formData EXCEPT
                                            !.balloonPayment = defaultBalloon]),
                          [c.inputValues EXCEPT
                             !.balloonPayment = formatNumberWithCommas(defaultBalloon),
                             !.balloonPercent = <<"3", "0">>])
             IN  Update([v.page EXCEPT !.balloonPercent = Num(30)], v.formDataSet)
        ELSE u

\* An effect of the commit of render c after render prev, applied to u when
\* one of its dependencies changed.
DepositPercentStep(prev, c, u) ==
    IF DepositPercentEffectRuns(prev, c) THEN DepositPercentEffect(c, u) ELSE u

DepositStep(prev, c, u) ==
    IF DepositEffectRuns(prev, c) THEN DepositEffect(c, u) ELSE u

CarPriceStep(prev, c, u) ==
    IF CarPriceEffectRuns(prev, c) THEN CarPriceEffect(c, u) ELSE u

BalloonPercentStep(prev, c, u) ==
    IF BalloonPercentEffectRuns(prev, c) THEN BalloonPercentEffect(c, u) ELSE u

BalloonPaymentStep(prev, c, u) ==
    IF BalloonPaymentEffectRuns(prev, c) THEN BalloonPaymentEffect(c, u) ELSE u

FinanceTypeStep(prev, c, u) ==
    IF FinanceTypeEffectRuns(prev, c) THEN FinanceTypeEffect(c, u) ELSE u

\* The effects of one commit of render c after render prev, in the order of
\* their declaration, applied to u.
CarEffects(prev, c, u) ==
    FinanceTypeStep(prev, c,
        BalloonPaymentStep(prev, c,
            BalloonPercentStep(prev, c,
                CarPriceStep(prev, c,
                    DepositStep(prev, c,
                        DepositPercentStep(prev, c, u))))))

\* The effects of the commit of render c after render prev, and of the
\* renders their state updates cause.  The effect on [formData] calls
\* calculateCarLoan whenever formData is a new object.
RECURSIVE CarCommit(_, _, _)
CarCommit(prev, c, formDataSet) ==
    LET called == IF formDataSet THEN calculateCarLoan(c, c) ELSE c
        u == CarEffects(prev, c, Update(called, FALSE))
    IN  IF u.formDataSet \/ u.page # called
        THEN CarCommit(c, u.page, u.formDataSet)
        ELSE u.page

\* The state after mounting: every effect has run once on the first render.
CarAfterMount ==
    CarCommit([CarFirstRender EXCEPT !.formData.financeType = "null"],
              CarFirstRender, TRUE)

----------------------------------------------------------------------------
(* The state *)

\* The functions applied to bounded inputs.
VARIABLES loan, calc, sim, charged, chart, lpc

\* The MortgagePayment page.
VARIABLES formData, inputValues, results, downPaymentPercent, isCalculating,
          focusedField, timers, crashed

\* The PensionProjection page.
VARIABLES pensionFormData, pensionInputValues, pensionResults,
          pensionIsCalculating, pensionFocusedField, selectedYearIndex,
          allocationError, pensionTimers

\* The PurchasingPower page; currentYear is the year of the clock when the
\* module is loaded.
VARIABLES powerFormData, powerInputValues, powerResults, powerIsCalculating,
          powerFocusedField, powerTimers, currentYear

\* calculateProjection, calculatePurchasingPower and the rate scenarios of
\* calculateMortgage applied to bounded inputs.
VARIABLES projection, power, rates

\* The CarPayment page: the state of its current render.
VARIABLES car

loanVars == <<loan, calc, sim, charged, chart, lpc>>

powerVars == <<powerFormData, powerInputValues, powerResults,
               powerIsCalculating, powerFocusedField, powerTimers, currentYear>>

functionVars == <<projection, power, rates>>

carVars == <<car>>

mortgageVars == <<formData, inputValues, results, downPaymentPercent,
                  isCalculating, focusedField, timers, crashed>>

pensionVars == <<pensionFormData, pensionInputValues, pensionResults,
                 pensionIsCalculating, pensionFocusedField, selectedYearIndex,
                 allocationError, pensionTimers>>

vars == <<loanVars, mortgageVars, pensionVars, powerVars, functionVars, carVars>>

\* None of the three functions is being applied.
NotApplied == [pc |-> "idle"]

FunctionsIdle ==
    /\ projection = NotApplied
    /\ power = NotApplied
    /\ rates = NotApplied

\* results of PurchasingPower before the first setResults.
NoPower == [from |-> [amount |-> NaN, startYear |-> NaN, endYear |-> NaN]]

\* The state of PurchasingPower after mounting in the given year: the
\* effect on [formData] has called calculatePurchasingPower once.
PowerMountedIn(year) ==
    /\ currentYear = year
    /\ powerFormData = [amount |-> Num(1000), startYear |-> Num(2000),
                        endYear |-> Num(year)]
    /\ powerInputValues = [amount |-> <<"1", ",", "0", "0", "0">>,
                           startYear |-> <<"2", "0", "0", "0">>,
                           endYear |-> NumberToDigits(year)]
    /\ powerResults = NoPower
    /\ powerIsCalculating = TRUE
    /\ powerFocusedField = NoField
    /\ powerTimers = <<powerFormData>>

PowerMounted == PowerMountedIn(LatestYear)

\* The CarPayment page after mounting.
CarMounted == car = CarAfterMount

----------------------------------------------------------------------------
(* The functions applied to bounded inputs *)

\* The largest number of monthly periods of a loan.
MaxMonths == 24

LoanAmounts == {-5, 0, 1, 5, 100}

\* Annual rates in percent: monthly rates 0, 1/10, 1/2, 1 and 2.
InterestRates == {0, 120, 600, 1200, 2400}

Overpayments == {0, 1, 7, 200}

IntLimit == (2^30 - 1) + 2^30

\* v * b^k is within the 32-bit integers that hold the fractions.
RECURSIVE Fits(_, _, _)
Fits(v, b, k) ==
    IF k = 0 THEN TRUE
    ELSE IF v <= IntLimit \div b THEN Fits(v * b, b, k - 1) ELSE FALSE

\* The loans whose schedule the fractions above can hold exactly.
Representable(P, R, n, o) ==
    LET g == Add(Num(1), Div(Div(Num(R), Num(100)), Num(12)))
    IN  IF R = 0 THEN TRUE
        ELSE Fits((Abs(P) + o + 1) * (n + 1), g[1] * g[2], n)

NoCalc == [monthlyInterestRate |-> Zero, numberOfPayments |-> Zero,
           principalAndInterest |-> Zero, totalInterest |-> Zero,
           totalInterestWithOverpayment |-> Zero, interestSaved |-> Zero,
           newLoanTermMonths |-> Zero, monthsReduced |-> Zero]

NoChart == [pc |-> "none"]

\* The state of MortgagePayment after mounting: the effect on [formData]
\* has called calculateMortgage once.
MortgageMounted ==
    /\ formData = [homePrice |-> Num(250000), downPayment |-> Num(25000),
                   loanTerm |-> Num(25), interestRate |-> <<9, 2>>,
                   monthlyOverpayment |-> Zero]
    /\ inputValues = [homePrice |-> <<"2", "5", "0", ",", "0", "0", "0">>,
                      downPayment |-> <<"2", "5", ",", "0", "0", "0">>,
                      loanTerm |-> <<"2", "5">>,
                      interestRate |-> <<"4", ".", "5">>,
                      monthlyOverpayment |-> <<"0">>,
                      downPaymentPercent |-> <<"1", "0">>]
    /\ results = NoResults
    /\ downPaymentPercent = Num(10)
    /\ isCalculating = TRUE
    /\ focusedField = NoField
    /\ timers = <<formData>>
    /\ crashed = FALSE

\* The state of PensionProjection after mounting: the allocation 70/20/10
\* is valid and the effect on [formData] has called calculateProjection.
PensionMounted ==
    /\ pensionFormData =
         [currentAge |-> Num(30), retirementAge |-> Num(68),
          currentPension |-> Num(50000), monthlyContribution |-> Num(500),
          employerContribution |-> Num(300), stocksAllocation |-> Num(70),
          bondsAllocation |-> Num(20), cashAllocation |-> Num(10),
          stocksReturn |-> Num(7), bondsReturn |-> Num(3),
          cashReturn |-> <<3, 2>>, inflationRate |-> Num(2)]
    /\ pensionInputValues =
         [currentAge |-> <<"3", "0">>, retirementAge |-> <<"6", "8">>,
          currentPension |-> <<"5", "0", ",", "0", "0", "0">>,
          monthlyContribution |-> <<"5", "0", "0">>,
          employerContribution |-> <<"3", "0", "0">>,
          stocksAllocation |-> <<"7", "0">>, bondsAllocation |-> <<"2", "0">>,
          cashAllocation |-> <<"1", "0">>, stocksReturn |-> <<"7", ".", "0">>,
          bondsReturn |-> <<"3", ".", "0">>, cashReturn |-> <<"1", ".", "5">>,
          inflationRate |-> <<"2", ".", "0">>]
    /\ pensionResults = NoProjection
    /\ pensionIsCalculating = TRUE
    /\ pensionFocusedField = NoField
    /\ selectedYearIndex = NoYear
    /\ allocationError = NoAllocationError
    /\ pensionTimers = <<pensionFormData>>

\* No loan is being computed.
LoanIdle ==
    /\ loan = [loanAmount |-> Zero, interestRate |-> Zero, months |-> 0,
               monthlyOverpayment |-> Zero]
    /\ calc = NoCalc
    /\ sim = OverpaymentStart(Zero)
    /\ charged = Zero
    /\ chart = NoChart
    /\ lpc = "idle"

LoanInit ==
    /\ \E P \in LoanAmounts, R \in InterestRates, n \in 0..MaxMonths,
          o \in Overpayments :
          /\ Representable(P, R, n, o)
          /\ loan = [loanAmount |-> Num(P), interestRate |-> Num(R),
                     months |-> n, monthlyOverpayment |-> Num(o)]
    /\ calc = NoCalc
    /\ sim = OverpaymentStart(Zero)
    /\ charged = Zero
    /\ chart = NoChart
    /\ lpc = "payment"
    /\ MortgageMounted /\ PensionMounted /\ PowerMounted /\ FunctionsIdle /\ CarMounted

\* calculateMortgage, from the loan amount to the total interest.
ComputePayment ==
    /\ lpc = "payment"
    /\ LET monthlyInterestRate == Div(Div(loan.interestRate, Num(100)), Num(12))
           numberOfPayments == Num(loan.months)
           principalAndInterest ==
               PrincipalAndInterest(loan.loanAmount, monthlyInterestRate, numberOfPayments)
           totalInterest ==
               Sub(Mul(principalAndInterest, numberOfPayments), loan.loanAmount)
       IN  calc' = [NoCalc EXCEPT
                      !.monthlyInterestRate = monthlyInterestRate,
                      !.numberOfPayments = numberOfPayments,
                      !.principalAndInterest = principalAndInterest,
                      !.totalInterest = totalInterest,
                      !.totalInterestWithOverpayment = totalInterest,
                      !.newLoanTermMonths = numberOfPayments]
    /\ sim' = OverpaymentStart(loan.loanAmount)
    /\ lpc' = "overpay"
    /\ UNCHANGED <<loan, charged, chart>>
    /\ UNCHANGED <<mortgageVars, pensionVars, powerVars, functionVars, carVars>>

\* One period of calculateWithOverpayment; charged adds up the interest
\* charged on the balance at the start of each period.
OverpaymentPeriod ==
    /\ lpc = "overpay"
    /\ OverpaymentContinues(sim, calc.numberOfPayments)
    /\ sim' = OverpaymentMonth(sim, calc.monthlyInterestRate,
                               calc.principalAndInterest, loan.monthlyOverpayment)
    /\ charged' = Add(charged, Mul(sim.balance, calc.monthlyInterestRate))
    /\ UNCHANGED <<loan, calc, chart, lpc>>
    /\ UNCHANGED <<mortgageVars, pensionVars, powerVars, functionVars, carVars>>

\* The return of calculateWithOverpayment and the use calculateMortgage
\* makes of it when there is an overpayment; then the chart starts, when
\* the term is a number of years.
OverpaymentReturn ==
    /\ lpc = "overpay"
    /\ ~OverpaymentContinues(sim, calc.numberOfPayments)
    /\ calc' = IF Gt(loan.monthlyOverpayment, Zero)
               THEN [calc EXCEPT
                       !.totalInterestWithOverpayment = sim.totalInterest,
                       !.interestSaved = Sub(calc.totalInterest, sim.totalInterest),
                       !.newLoanTermMonths = Num(sim.month),
                       !.monthsReduced = Sub(calc.numberOfPayments, Num(sim.month))]
               ELSE calc
    /\ IF loan.months % 12 = 0
       THEN /\ chart' = ChartStart(loan.loanAmount, loan.interestRate,
                                   Num(loan.months \div 12), loan.monthlyOverpayment)
            /\ lpc' = "chart"
       ELSE /\ chart' = chart
            /\ lpc' = "done"
    /\ UNCHANGED <<loan, sim, charged>>
    /\ UNCHANGED <<mortgageVars, pensionVars, powerVars, functionVars, carVars>>

\* One step of the main loop of calculateAmortizationData.
ChartLoopStep ==
    /\ lpc = "chart"
    /\ chart.pc \notin {"done", "TypeError"}
    /\ chart' = ChartStep(chart)
    /\ UNCHANGED <<loan, calc, sim, charged, lpc>>
    /\ UNCHANGED <<mortgageVars, pensionVars, powerVars, functionVars, carVars>>

\* calculateAmortizationData returns, or throws.
ChartReturn ==
    /\ lpc = "chart"
    /\ chart.pc \in {"done", "TypeError"}
    /\ lpc' = "done"
    /\ UNCHANGED <<loan, calc, sim, charged, chart>>
    /\ UNCHANGED <<mortgageVars, pensionVars, powerVars, functionVars, carVars>>

LoanNext ==
    \/ ComputePayment
    \/ OverpaymentPeriod
    \/ OverpaymentReturn
    \/ ChartLoopStep
    \/ ChartReturn

LoanSpec == LoanInit /\ [][LoanNext]_vars

----------------------------------------------------------------------------
(* The MortgagePayment page: events and timers *)

\* The most calculateMortgage timers pending at a time.
MaxTimers == 2

\* The texts an edit leaves in a field.
TypedValues(name) ==
    CASE name = "homePrice" -> {<<>>, <<"2", "0", ",", "0", "0", "0">>}
      [] name = "downPayment" -> {<<>>, <<"3", "0", "0", "0", "0", "0">>}
      [] name = "downPaymentPercent" -> {<<>>, <<"1", "5", "0">>}
      [] name = "loanTerm" -> {<<>>, <<"1">>}
      [] name = "interestRate" -> {<<>>, <<"6", ".", ".", "5">>}
      [] name = "monthlyOverpayment" -> {<<"1", "0", "0">>}

\* The state of the current render.
Page ==
    [formData |-> formData, inputValues |-> inputValues, results |-> results,
     downPaymentPercent |-> downPaymentPercent, isCalculating |-> isCalculating,
     focusedField |-> focusedField, timers |-> timers, crashed |-> crashed]

\* The next render is p.
Render(p) ==
    /\ Len(p.timers) <= MaxTimers
    /\ formData' = p.formData
    /\ inputValues' = p.inputValues
    /\ results' = p.results
    /\ downPaymentPercent' = p.downPaymentPercent
    /\ isCalculating' = p.isCalculating
    /\ focusedField' = p.focusedField
    /\ timers' = p.timers
    /\ crashed' = p.crashed

\* An event's handler, then the effects of the renders that follow.
Handle(u) == Render(Commit(Page, u.page, u.formDataSet))

FocusField(name) ==
    /\ ~crashed /\ focusedField = NoField
    /\ Handle(handleInputFocus(Page, name))
    /\ UNCHANGED <<loanVars, pensionVars, powerVars, functionVars, carVars>>

BlurField(name) ==
    /\ ~crashed /\ focusedField = name
    /\ Handle(handleInputBlur(Page, name))
    /\ UNCHANGED <<loanVars, pensionVars, powerVars, functionVars, carVars>>

ChangeField(name, value) ==
    /\ ~crashed /\ focusedField = name
    /\ Handle(handleInputChange(Page, name, value))
    /\ UNCHANGED <<loanVars, pensionVars, powerVars, functionVars, carVars>>

ChangePercent(value) ==
    /\ ~crashed /\ focusedField = "downPaymentPercent"
    /\ Handle(handlePercentChange(Page, value))
    /\ UNCHANGED <<loanVars, pensionVars, powerVars, functionVars, carVars>>

\* The Calculate button, enabled while no calculation runs and the deposit
\* is below the price.
ClickCalculate ==
    /\ ~crashed /\ focusedField = NoField
    /\ ~isCalculating
    /\ ~Ge(formData.downPayment, formData.homePrice)
    /\ Handle(Update(calculateMortgage(Page, Page), FALSE))
    /\ UNCHANGED <<loanVars, pensionVars, powerVars, functionVars, carVars>>

\* The oldest timer of calculateMortgage fires.  After the tree was
\* unmounted its state updates have no effect.
TimerFires ==
    /\ timers # <<>>
    /\ IF crashed
       THEN Render([Page EXCEPT !.timers = Tail(@)])
       ELSE Handle(Update(TimerBody(Page), FALSE))
    /\ UNCHANGED <<loanVars, pensionVars, powerVars, functionVars, carVars>>

MortgageInit ==
    MortgageMounted /\ PensionMounted /\ PowerMounted /\ LoanIdle /\ FunctionsIdle /\ CarMounted

MortgageNext ==
    \/ \E name \in InputFields : FocusField(name)
    \/ \E name \in InputFields : BlurField(name)
    \/ \E name \in FormFields : \E value \in TypedValues(name) :
           ChangeField(name, value)
    \/ \E value \in TypedValues("downPaymentPercent") : ChangePercent(value)
    \/ ClickCalculate
    \/ TimerFires

MortgageSpec == MortgageInit /\ [][MortgageNext]_vars

----------------------------------------------------------------------------
(* The PensionProjection page: events and timers *)

\* The most calculateProjection timers pending at a time.
MaxProjections == 2

\* The fields the events below edit.
EditedFields == AllocationFields \cup {"retirementAge"}

\* The texts an edit leaves in a field.
PensionTypedValues(name) ==
    CASE name = "stocksAllocation" -> {<<>>, <<"1", "5", "0">>}
      [] name = "bondsAllocation" -> {<<>>, <<"2", "5">>}
      [] name = "cashAllocation" -> {<<"5">>}
      [] name = "retirementAge" -> {<<>>, <<"2", "5">>, <<"4", "0">>}

\* The state of the current render.
PensionPage ==
    [formData |-> pensionFormData, inputValues |-> pensionInputValues,
     results |-> pensionResults, isCalculating |-> pensionIsCalculating,
     focusedField |-> pensionFocusedField,
     selectedYearIndex |-> selectedYearIndex,
     allocationError |-> allocationError, timers |-> pensionTimers]

\* The next render is q.
PensionRender(q) ==
    /\ Len(q.timers) <= MaxProjections
    /\ pensionFormData' = q.formData
    /\ pensionInputValues' = q.inputValues
    /\ pensionResults' = q.results
    /\ pensionIsCalculating' = q.isCalculating
    /\ pensionFocusedField' = q.focusedField
    /\ selectedYearIndex' = q.selectedYearIndex
    /\ allocationError' = q.allocationError
    /\ pensionTimers' = q.timers

PensionFocusField(name) ==
    /\ pensionFocusedField = NoField
    /\ PensionRender(PensionCommit(PensionHandleInputFocus(PensionPage, name)))
    /\ UNCHANGED <<loanVars, mortgageVars, powerVars, functionVars, carVars>>

PensionBlurField(name) ==
    /\ pensionFocusedField = name
    /\ PensionRender(PensionCommit(PensionHandleInputBlur(PensionPage, name)))
    /\ UNCHANGED <<loanVars, mortgageVars, powerVars, functionVars, carVars>>

PensionChangeField(name, value) ==
    /\ pensionFocusedField = name
    /\ PensionRender(PensionCommit(PensionHandleInputChange(PensionPage, name, value)))
    /\ UNCHANGED <<loanVars, mortgageVars, powerVars, functionVars, carVars>>

\* The Calculate button, enabled while no projection runs, the allocation
\* is valid and the retirement age is above the current age.
ClickProject ==
    /\ pensionFocusedField = NoField
    /\ ~pensionIsCalculating
    /\ allocationError = NoAllocationError
    /\ ~Le(pensionFormData.retirementAge, pensionFormData.currentAge)
    /\ PensionRender(calculateProjection(PensionPage, PensionPage))
    /\ UNCHANGED <<loanVars, mortgageVars, powerVars, functionVars, carVars>>

\* The oldest timer of calculateProjection fires.
ProjectionTimerFires ==
    /\ pensionTimers # <<>>
    /\ PensionRender(ProjectionTimerBody(PensionPage))
    /\ UNCHANGED <<loanVars, mortgageVars, powerVars, functionVars, carVars>>

\* The indices the slider and the bars below select: the first years and
\* the last year of the breakdown.
SelectableIndices(length) == {0, length - 1}

\* The year slider, shown with the results.
SlideYear(index) ==
    /\ pensionResults # NoProjection
    /\ index \in 0 .. BreakdownLength(PensionPage) - 1
    /\ PensionRender(SelectYearIndex(PensionPage, index))
    /\ UNCHANGED <<loanVars, mortgageVars, powerVars, functionVars, carVars>>

\* The pointer enters the bar of a year of the chart.
HoverBar(index) ==
    /\ pensionResults # NoProjection
    /\ index \in 0 .. BreakdownLength(PensionPage) - 1
    /\ PensionRender(SelectYearIndex(PensionPage, index))
    /\ UNCHANGED <<loanVars, mortgageVars, powerVars, functionVars, carVars>>

PensionInit ==
    PensionMounted /\ MortgageMounted /\ PowerMounted /\ LoanIdle /\ FunctionsIdle /\ CarMounted

PensionNext ==
    \/ \E name \in EditedFields : PensionFocusField(name)
    \/ \E name \in EditedFields : PensionBlurField(name)
    \/ \E name \in EditedFields : \E value \in PensionTypedValues(name) :
           PensionChangeField(name, value)
    \/ ClickProject
    \/ ProjectionTimerFires
    \/ \E index \in SelectableIndices(BreakdownLength(PensionPage)) : SlideYear(index)
    \/ \E index \in SelectableIndices(BreakdownLength(PensionPage)) : HoverBar(index)

PensionSpec == PensionInit /\ [][PensionNext]_vars

----------------------------------------------------------------------------
(* calculateProjection's timer body applied to bounded inputs *)

\* The largest number of years to retirement.
MaxYears == 3

\* The age of the saver, and the calendar years of the run.
ProjectionAge == 30

ProjectionCalendarYears == {2025, 2026}

ProjectionPensions == {0, 1, 1000}

ProjectionContributions == {0, 100}

ProjectionEmployerContributions == {0, 50}

\* Stocks, bonds and cash in percent; the last one does not total 100.
ProjectionAllocations == {<<70, 20, 10>>, <<50, 50, 0>>, <<100, 0, 0>>, <<50, 50, 50>>}

\* The returns of stocks, bonds and cash in percent.
ProjectionReturns == {<<0, 0, 0>>, <<50, 50, 50>>, <<100, 0, 50>>}

ProjectionInflationRates == {0, 100}

ProjectionInit ==
    /\ \E retirementAge \in (ProjectionAge - 1) .. (ProjectionAge + MaxYears) :
       \E currentPension \in ProjectionPensions :
       \E monthlyContribution \in ProjectionContributions :
       \E employerContribution \in ProjectionEmployerContributions :
       \E allocation \in ProjectionAllocations :
       \E return \in ProjectionReturns :
       \E inflationRate \in ProjectionInflationRates :
       \E thisYear \in ProjectionCalendarYears :
           projection = ProjectionStart(
               [currentAge |-> Num(ProjectionAge),
                retirementAge |-> Num(retirementAge),
                currentPension |-> Num(currentPension),
                monthlyContribution |-> Num(monthlyContribution),
                employerContribution |-> Num(employerContribution),
                stocksAllocation |-> Num(allocation[1]),
                bondsAllocation |-> Num(allocation[2]),
                cashAllocation |-> Num(allocation[3]),
                stocksReturn |-> Num(return[1]),
                bondsReturn |-> Num(return[2]),
                cashReturn |-> Num(return[3]),
                inflationRate |-> Num(inflationRate)], thisYear)
    /\ power = NotApplied
    /\ rates = NotApplied
    /\ LoanIdle /\ MortgageMounted /\ PensionMounted /\ PowerMounted /\ CarMounted

\* One iteration of the loop over the years, or its exit.
ProjectionLoopStep ==
    /\ projection.pc = "year"
    /\ projection' = ProjectionYear(projection)
    /\ UNCHANGED <<loanVars, mortgageVars, pensionVars, powerVars, power, rates, carVars>>

\* setResults and setSelectedYearIndex
ProjectionReturn ==
    /\ projection.pc = "results"
    /\ projection' = [pc |-> "done",
                      formData |-> projection.formData,
                      results |-> ProjectionResults(projection),
                      selectedYearIndex |-> Len(projection.yearlyBreakdown) - 1]
    /\ UNCHANGED <<loanVars, mortgageVars, pensionVars, powerVars, power, rates, carVars>>

\* The catch clause: nothing is stored.
ProjectionCatch ==
    /\ projection.pc = "Error"
    /\ projection' = [pc |-> "caught", formData |-> projection.formData]
    /\ UNCHANGED <<loanVars, mortgageVars, pensionVars, powerVars, power, rates, carVars>>

ProjectionNext ==
    \/ ProjectionLoopStep
    \/ ProjectionReturn
    \/ ProjectionCatch

ProjectionSpec == ProjectionInit /\ [][ProjectionNext]_vars

----------------------------------------------------------------------------
(* calculatePurchasingPower's timer body applied to bounded inputs *)

\* The largest number of years between the start and the end of a walk.
MaxSpan == 2

\* The calendar years of the run: the last year of the table and a later one.
PowerCalendarYears == {LatestYear, LatestYear + 2}

\* The amounts of the form: whole and not negative.
PowerAmounts == {0, 1, 1000}

\* 0 is the year stored by the blur of an emptied year field.
PowerStartYears == {0, 1980, 1984, 2013, 2022, 2024}

PowerEndYears ==
    {0} \cup {start + d : start \in PowerStartYears \ {0}, d \in 0 .. MaxSpan}

PowerInit ==
    /\ \E amount \in PowerAmounts :
       \E startYear \in PowerStartYears :
       \E endYear \in PowerEndYears :
       \E thisYear \in PowerCalendarYears :
       LET form == [amount |-> Num(amount), startYear |-> Num(startYear),
                    endYear |-> Num(endYear)]
       IN  /\ startYear <= thisYear
           /\ endYear <= thisYear
           /\ ValidEndYear(form, thisYear) - ValidStartYear(form) <= MaxSpan
           /\ power = PowerStart(form, thisYear)
    /\ projection = NotApplied
    /\ rates = NotApplied
    /\ LoanIdle /\ MortgageMounted /\ PensionMounted /\ PowerMounted /\ CarMounted

\* One iteration of the loop over the years, or its exit.
PowerLoopStep ==
    /\ power.pc = "year"
    /\ power' = PowerYear(power)
    /\ UNCHANGED <<loanVars, mortgageVars, pensionVars, powerVars, projection, rates, carVars>>

\* setResults
PowerReturn ==
    /\ power.pc = "results"
    /\ power' = [pc |-> "done",
                 formData |-> power.formData,
                 currentYear |-> power.currentYear,
                 validStartYear |-> power.validStartYear,
                 validEndYear |-> power.validEndYear,
                 results |-> PowerResults(power)]
    /\ UNCHANGED <<loanVars, mortgageVars, pensionVars, powerVars, projection, rates, carVars>>

PowerNext ==
    \/ PowerLoopStep
    \/ PowerReturn

PowerSpec == PowerInit /\ [][PowerNext]_vars

----------------------------------------------------------------------------
(* The PurchasingPower page: events and timers *)

\* The most calculatePurchasingPower timers pending at a time.
MaxWalks == 2

\* The texts an edit leaves in a field.
PowerTypedValues(name) ==
    CASE name = "amount" -> {<<>>, <<"5">>}
      [] name = "startYear" -> {<<>>, <<"1">>, <<"2", "0", "2", "2">>}
      [] name = "endYear" -> {<<>>, <<"9", "9", "9", "9">>, <<"1", "9", "9", "0">>}

\* The state of the current render.
PowerPage ==
    [formData |-> powerFormData, inputValues |-> powerInputValues,
     results |-> powerResults, isCalculating |-> powerIsCalculating,
     focusedField |-> powerFocusedField, timers |-> powerTimers]

\* The next render is r.
PowerRender(r) ==
    /\ Len(r.timers) <= MaxWalks
    /\ powerFormData' = r.formData
    /\ powerInputValues' = r.inputValues
    /\ powerResults' = r.results
    /\ powerIsCalculating' = r.isCalculating
    /\ powerFocusedField' = r.focusedField
    /\ powerTimers' = r.timers
    /\ currentYear' = currentYear

PowerFocusField(name) ==
    /\ powerFocusedField = NoField
    /\ PowerRender(PowerCommit(PowerHandleInputFocus(PowerPage, name)))
    /\ UNCHANGED <<loanVars, mortgageVars, pensionVars, functionVars, carVars>>

PowerBlurField(name) ==
    /\ powerFocusedField = name
    /\ PowerRender(PowerCommit(PowerHandleInputBlur(PowerPage, name, currentYear)))
    /\ UNCHANGED <<loanVars, mortgageVars, pensionVars, functionVars, carVars>>

PowerChangeField(name, value) ==
    /\ powerFocusedField = name
    /\ PowerRender(PowerCommit(PowerHandleInputChange(PowerPage, name, value, currentYear)))
    /\ UNCHANGED <<loanVars, mortgageVars, pensionVars, functionVars, carVars>>

\* The Calculate button.
ClickCalculatePower ==
    /\ powerFocusedField = NoField
    /\ ~PowerButtonDisabled(PowerPage, currentYear)
    /\ PowerRender(calculatePurchasingPower(PowerPage, PowerPage))
    /\ UNCHANGED <<loanVars, mortgageVars, pensionVars, functionVars, carVars>>

\* The oldest timer of calculatePurchasingPower fires.
PowerTimerFires ==
    /\ powerTimers # <<>>
    /\ PowerRender(PowerTimerBody(PowerPage, currentYear))
    /\ UNCHANGED <<loanVars, mortgageVars, pensionVars, functionVars, carVars>>

\* The page is mounted in the last year of the table or in a later year.
PowerPageInit ==
    /\ \E year \in PowerCalendarYears : PowerMountedIn(year)
    /\ MortgageMounted /\ PensionMounted /\ LoanIdle /\ FunctionsIdle /\ CarMounted

PowerPageNext ==
    \/ \E name \in PowerFields : PowerFocusField(name)
    \/ \E name \in PowerFields : PowerBlurField(name)
    \/ \E name \in PowerFields : \E value \in PowerTypedValues(name) :
           PowerChangeField(name, value)
    \/ ClickCalculatePower
    \/ PowerTimerFires

PowerPageSpec == PowerPageInit /\ [][PowerPageNext]_vars

----------------------------------------------------------------------------
(* The payments of calculateMortgage's result applied to bounded inputs *)

\* The largest number of monthly periods; the term is periods / 12 years.
MaxPeriods == 1

RateHomePrices == {1000, 1200}

RateDownPayments == {0, 200, 1200, 2000}

\* Annual rates in percent.
RateInterestRates == {0, 1, 2, 3, 11, 599}

RateInit ==
    /\ \E homePrice \in RateHomePrices :
       \E downPayment \in RateDownPayments :
       \E interestRate \in RateInterestRates :
       \E periods \in 0 .. MaxPeriods :
           rates = [pc |-> "mortgage",
                    formData |->
                        [homePrice |-> Num(homePrice),
                         downPayment |-> Num(downPayment),
                         loanTerm |-> Norm(periods, 12),
                         interestRate |-> Num(interestRate),
                         monthlyOverpayment |-> Zero]]
    /\ projection = NotApplied
    /\ power = NotApplied
    /\ LoanIdle /\ MortgageMounted /\ PensionMounted /\ PowerMounted /\ CarMounted

\* The record that the timer body of calculateMortgage passes to setResults.
RateResults ==
    /\ rates.pc = "mortgage"
    /\ rates' = [pc |-> "payment", formData |-> rates.formData,
                 results |-> MortgageResults(rates.formData)]
    /\ UNCHANGED <<loanVars, mortgageVars, pensionVars, powerVars, projection, power, carVars>>

\* calculateMonthlyPayment at the rate of the form itself.
RatePayment ==
    /\ rates.pc = "payment"
    /\ rates' = [pc |-> "done", formData |-> rates.formData,
                 results |-> rates.results,
                 payment |->
                     calculateMonthlyPayment(rates.results.loanAmount,
                                             rates.formData.interestRate,
                                             rates.formData.loanTerm)]
    /\ UNCHANGED <<loanVars, mortgageVars, pensionVars, powerVars, projection, power, carVars>>

RateNext ==
    \/ RateResults
    \/ RatePayment

RateSpec == RateInit /\ [][RateNext]_vars

----------------------------------------------------------------------------
(* calculateAmortizationData applied to terms of several years *)

\* The longest term of the chart in years.
MaxChartYears == 3

ChartInit ==
    /\ \E P \in LoanAmounts, R \in InterestRates, years \in 0..MaxChartYears,
          o \in Overpayments :
          /\ Representable(P, R, 12 * years, o)
          /\ loan = [loanAmount |-> Num(P), interestRate |-> Num(R),
                     months |-> 12 * years, monthlyOverpayment |-> Num(o)]
          /\ chart = ChartStart(Num(P), Num(R), Num(years), Num(o))
    /\ calc = NoCalc
    /\ sim = OverpaymentStart(Zero)
    /\ charged = Zero
    /\ lpc = "chart"
    /\ MortgageMounted /\ PensionMounted /\ PowerMounted /\ FunctionsIdle /\ CarMounted

ChartNext ==
    \/ ChartLoopStep
    \/ ChartReturn

ChartSpec == ChartInit /\ [][ChartNext]_vars

----------------------------------------------------------------------------
(* The CarPayment page: events and timers *)

\* The most calculateCarLoan timers pending at a time.
MaxCarTimers == 2

\* The highest car price the - and + buttons are pressed to.
MaxCarPrice == 1000

\* The texts an edit leaves in a field.
CarTypedValues(name) ==
    CASE name = "carPrice" -> {<<"1", ",", "0", "0", "0">>}
      [] name = "deposit" -> {<<"3", "0", "0", "0", "0">>}
      [] name = "interestRate" -> {<<>>}
      [] name = "balloonPayment" -> {<<"9", ",", "0", "0", "0">>}
      [] name = "balloonPercent" -> {<<"1", "5", "0">>}

\* The fields the events below edit.
CarEditedFields ==
    {"carPrice", "deposit", "interestRate", "balloonPayment", "balloonPercent"}

\* The next render is c.
CarRender(c) ==
    /\ Len(c.timers) <= MaxCarTimers
    /\ car' = c

\* An event's handler, then the effects of the renders that follow.
CarHandle(u) == CarRender(CarCommit(car, u.page, u.formDataSet))

CarFocusField(name) ==
    /\ car.focusedField = NoField
    /\ name \in CarFieldsShown(car)
    /\ CarHandle(CarHandleInputFocus(car, name))
    /\ UNCHANGED <<loanVars, mortgageVars, pensionVars, powerVars, functionVars>>

CarBlurField(name) ==
    /\ car.focusedField = name
    /\ CarHandle(CarHandleInputBlur(car, name))
    /\ UNCHANGED <<loanVars, mortgageVars, pensionVars, powerVars, functionVars>>

CarChangeField(name, value) ==
    /\ car.focusedField = name
    /\ CarHandle(CarHandleInputChange(car, name, value))
    /\ UNCHANGED <<loanVars, mortgageVars, pensionVars, powerVars, functionVars>>

\* The select element offers the other finance type.
ChangeFinanceType(value) ==
    /\ car.focusedField = NoField
    /\ value # car.formData.financeType
    /\ CarHandle(ChangeFinanceTypeTo(car, value))
    /\ UNCHANGED <<loanVars, mortgageVars, pensionVars, powerVars, functionVars>>

\* A - or + button of the car price.
AdjustValue(field, increment) ==
    /\ car.focusedField = NoField
    /\ Le(car.formData[field], Num(IF increment THEN MaxCarPrice - 1000 ELSE MaxCarPrice))
    /\ CarHandle(handleAdjustValue(car, field, increment))
    /\ UNCHANGED <<loanVars, mortgageVars, pensionVars, powerVars, functionVars>>

\* The Calculate button, enabled while no calculation runs and the deposit
\* is below the price.
ClickCalculateCar ==
    /\ car.focusedField = NoField
    /\ ~car.isCalculating
    /\ ~Ge(car.formData.deposit, car.formData.carPrice)
    /\ CarHandle(Update(calculateCarLoan(car, car), FALSE))
    /\ UNCHANGED <<loanVars, mortgageVars, pensionVars, powerVars, functionVars>>

\* The oldest timer of calculateCarLoan fires.
CarTimerFires ==
    /\ car.timers # <<>>
    /\ CarHandle(Update(CarTimerBody(car), FALSE))
    /\ UNCHANGED <<loanVars, mortgageVars, pensionVars, powerVars, functionVars>>

CarInit ==
    CarMounted /\ MortgageMounted /\ PensionMounted /\ PowerMounted /\ LoanIdle /\ FunctionsIdle

CarNext ==
    \/ \E name \in CarEditedFields : CarFocusField(name)
    \/ \E name \in CarEditedFields : CarBlurField(name)
    \/ \E name \in CarEditedFields : \E value \in CarTypedValues(name) :
           CarChangeField(name, value)
    \/ \E value \in {"hp", "pcp"} : ChangeFinanceType(value)
    \/ \E increment \in BOOLEAN : AdjustValue("carPrice", increment)
    \/ ClickCalculateCar
    \/ CarTimerFires

CarSpec == CarInit /\ [][CarNext]_vars

----------------------------------------------------------------------------
(* Properties of the payment formulas and of the simulators *)

LoanP == loan.loanAmount

LoanN == Num(loan.months)

LoanRate == Div(Div(loan.interestRate, Num(100)), Num(12))

\* calculateWithOverpayment has returned.
Returned == lpc \in {"chart", "done"}

\* The payment formula of the specification: P / n at zero rate, else
\* P r (1+r)^n / ((1+r)^n - 1).
Annuity(P, r, n) ==
    IF r = Zero THEN Div(P, n)
    ELSE Div(Mul(Mul(P, r), Pow(Add(Num(1), r), IntOf(n))),
             Sub(Pow(Add(Num(1), r), IntOf(n)), Num(1)))

\* C1: for P > 0, n > 0 and a constant overpayment > 0 on top of the
\* periodic payment, the total interest calculateWithOverpayment returns is
\* at most the zero-overpayment total interest payment * n - P, so
\* interestSaved is never negative.
C1_InterestSavedNonNegative ==
    (Returned /\ Gt(LoanP, Zero) /\ loan.months > 0
              /\ Gt(loan.monthlyOverpayment, Zero))
    => /\ Le(sim.totalInterest,
             Sub(Mul(calc.principalAndInterest, LoanN), LoanP))
       /\ Ge(calc.interestSaved, Zero)

\* C2: the total interest calculateWithOverpayment returns is the sum over
\* the simulated periods of balance-at-start * monthly rate and nothing
\* else; the excess of the final payment is not counted as interest.
C2_OnlyChargedInterest == Returned => sim.totalInterest = charged

\* C3: with overpayment 0 and the periodic payment for (P, r, n),
\* calculateWithOverpayment returns the closed-form total interest
\* payment * n - P and months = n, for P > 0 and n > 0.
C3_ZeroOverpaymentClosedForm ==
    (Returned /\ Gt(LoanP, Zero) /\ loan.months > 0
              /\ loan.monthlyOverpayment = Zero)
    => /\ sim.totalInterest = Sub(Mul(calc.principalAndInterest, LoanN), LoanP)
       /\ sim.month = loan.months

C3_Witness ==
    /\ Returned /\ Gt(LoanP, Zero) /\ loan.months >= 12
    /\ loan.monthlyOverpayment = Zero /\ Gt(LoanRate, Zero)
    /\ sim.month = loan.months /\ Gt(sim.totalInterest, Zero)

\* C4: for every input the loop of calculateWithOverpayment ends, with a
\* number of months at most originalTermMonths, so monthsReduced is never
\* negative: the month counter grows by one with every further period and
\* never passes originalTermMonths.
C4_LoopEndsWithinTerm ==
    /\ lpc # "payment" => Le(Num(sim.month), calc.numberOfPayments)
    /\ (lpc = "overpay" /\ OverpaymentContinues(sim, calc.numberOfPayments))
          => OverpaymentMonth(sim, calc.monthlyInterestRate,
                              calc.principalAndInterest,
                              loan.monthlyOverpayment).month = sim.month + 1
    /\ Returned => /\ Ge(Sub(calc.numberOfPayments, Num(sim.month)), Zero)
                   /\ Ge(calc.monthsReduced, Zero)
                   /\ Gt(loan.monthlyOverpayment, Zero)
                         => calc.newLoanTermMonths = Num(sim.month)

C4_Witness ==
    /\ Returned /\ Gt(loan.monthlyOverpayment, Zero)
    /\ sim.month > 1 /\ sim.month < loan.months
    /\ Gt(calc.monthsReduced, Zero)

\* A period of calculateWithOverpayment or of the chart's monthly loop
\* leaves a balance that is not negative and not above the one before it.
BalanceStepsDown ==
    /\ (lpc = "overpay" /\ lpc' = "overpay")
          => (Ge(sim'.balance, Zero) /\ Le(sim'.balance, sim.balance))
    /\ (lpc = "chart" /\ lpc' = "chart" /\ chart.pc = "month")
          => (Ge(chart'.remainingBalance, Zero)
              /\ Le(chart'.remainingBalance, chart.remainingBalance))

\* C5 as stated: with the periodic payment for (P, r, n), P > 0, n > 0 and
\* overpayment >= 0, in calculateWithOverpayment and in the monthly loop of
\* calculateAmortizationData the balance after each period is never
\* negative, never above the balance before, and is exactly 0 at or before
\* period n (so it is 0 when either simulation ends).
C5_BalanceReachesZero ==
    /\ [][(Gt(LoanP, Zero) /\ loan.months > 0) => BalanceStepsDown]_vars
    /\ []((Returned /\ Gt(LoanP, Zero) /\ loan.months > 0)
            => sim.balance = Zero)
    /\ []((lpc = "done" /\ chart.pc = "done" /\ Gt(LoanP, Zero))
            => chart.remainingBalance = Zero)

\* C5 amended: the balance steps down without going negative in both
\* simulations and is exactly 0 when calculateWithOverpayment returns; the
\* monthly loop of calculateAmortizationData simulates the years before the
\* last only, and ends with the balance calculateWithOverpayment has
\* after those (loanTerm - 1) * 12 periods.
C5_BalanceStepsDownToSchedule ==
    /\ [][(Gt(LoanP, Zero) /\ loan.months > 0) => BalanceStepsDown]_vars
    /\ []((Returned /\ Gt(LoanP, Zero) /\ loan.months > 0)
            => sim.balance = Zero)
    /\ []((lpc = "done" /\ chart.pc = "done" /\ Gt(LoanP, Zero))
            => chart.remainingBalance =
                 OverpaymentLoop(OverpaymentStart(LoanP), calc.monthlyInterestRate,
                                 calc.principalAndInterest, loan.monthlyOverpayment,
                                 Num(loan.months - 12)).balance)

C5_Witness ==
    /\ lpc = "done" /\ chart.pc = "done" /\ loan.months = 24
    /\ Gt(LoanRate, Zero) /\ Gt(chart.remainingBalance, Zero)
    /\ Lt(chart.remainingBalance, LoanP) /\ sim.balance = Zero

\* C6: for n > 0 monthly periods the payment computed by
\* calculateMonthlyPayment, by the inline formula of calculateMortgage, by
\* calculateAmortizationData and by the 'hp' branch of calculateCarLoan is
\* P / n when r = R/100/12 is 0 and P r (1+r)^n / ((1+r)^n - 1) when r > 0.
C6_PaymentFormula ==
    (lpc # "payment" /\ loan.months > 0)
    => /\ calc.principalAndInterest = Annuity(LoanP, LoanRate, LoanN)
       /\ HirePurchasePayment(LoanP, loan.interestRate, LoanN)
             = Annuity(LoanP, LoanRate, LoanN)
       /\ (loan.months % 12 = 0)
             => /\ calculateMonthlyPayment(LoanP, loan.interestRate,
                                           Num(loan.months \div 12))
                     = Annuity(LoanP, LoanRate, LoanN)
                /\ ChartMonthlyPayment(LoanP, loan.interestRate,
                                       Num(loan.months \div 12))
                     = Annuity(LoanP, LoanRate, LoanN)

C6_Witness ==
    /\ lpc = "done" /\ loan.months = 12 /\ Gt(LoanRate, Zero) /\ Gt(LoanP, Zero)
    /\ chart.pc = "done" /\ chart.monthlyPayment = calc.principalAndInterest
    /\ Gt(calc.principalAndInterest, Mul(LoanP, LoanRate))

\* C7: for P > 0, r >= 0 and n > 0 the periodic payment times n is at least
\* P and equals P only when r = 0, so totalInterest = payment * n - P is
\* never negative and is 0 exactly at zero rate.
C7_PaymentCoversPrincipal ==
    (lpc # "payment" /\ Gt(LoanP, Zero) /\ loan.months > 0)
    => /\ Ge(Mul(calc.principalAndInterest, LoanN), LoanP)
       /\ (Mul(calc.principalAndInterest, LoanN) = LoanP) <=> (LoanRate = Zero)
       /\ Ge(calc.totalInterest, Zero)
       /\ (calc.totalInterest = Zero) <=> (LoanRate = Zero)

C7_Witness ==
    /\ lpc = "overpay" /\ Gt(LoanP, Zero) /\ loan.months > 1
    /\ Gt(LoanRate, Zero) /\ Gt(calc.totalInterest, Zero)

----------------------------------------------------------------------------
(* Properties of the MortgagePayment page *)

\* C8: when the mortgage term is not greater than 0 (loanTerm 0, as after
\* the blur of the emptied term field), the mortgage calculation produces
\* no result: results never holds a record computed from a term of 0, that
\* is with a division by zero, and the amortization chart is never
\* computed for a term of 0 (where calculateAmortizationData throws and the
\* tree is unmounted).
C8_NoResultForZeroTerm ==
    /\ results # NoResults => Gt(results.from.loanTerm, Zero)
    /\ ~crashed

\* C9: after any sequence of form events no mortgage calculation runs with
\* a deposit greater than or equal to the price: every execution of the
\* timer body of calculateMortgage sees loanAmount = homePrice -
\* downPayment > 0.
C9_TimerSeesPositiveLoanAmount ==
    [][TimerFires =>
          Gt(Sub(Head(timers).homePrice, Head(timers).downPayment), Zero)]_vars

----------------------------------------------------------------------------
(* Properties of the PensionProjection page *)

AllocationValid(form) == TotalAllocation(form) = Num(100)

\* A step that stores a new formData stores it in one field only.
OneFieldStored ==
    Cardinality({f \in PensionFields : pensionFormData'[f] # pensionFormData[f]}) = 1

\* C10: whenever the three allocations of the form data do not add up to
\* exactly 100 no projection is computed from that form data: the effect
\* sets allocationError (with the total in its message) and does not call
\* calculateProjection, the allocations are stored as entered and results
\* keeps its value; with a total of exactly 100 the effect calls
\* calculateProjection with that form data and allocationError is null.
\* So every pending and every finished projection has allocations adding up
\* to 100.
C10_InvalidAllocationRefused ==
    /\ [](/\ (allocationError = NoAllocationError) <=> AllocationValid(pensionFormData)
          /\ ~AllocationValid(pensionFormData)
                => allocationError = AllocationMessage(TotalAllocation(pensionFormData))
          /\ \A i \in 1..Len(pensionTimers) : AllocationValid(pensionTimers[i])
          /\ pensionResults # NoProjection => AllocationValid(pensionResults.from))
    /\ [][pensionFormData' # pensionFormData =>
            /\ OneFieldStored
            /\ IF AllocationValid(pensionFormData')
               THEN /\ pensionTimers' = Append(pensionTimers, pensionFormData')
                    /\ allocationError' = NoAllocationError
               ELSE /\ pensionTimers' = pensionTimers
                    /\ pensionResults' = pensionResults
                    /\ allocationError' # NoAllocationError]_vars

C10_Witness ==
    /\ pensionFormData.stocksAllocation = Num(70)
    /\ pensionFormData.bondsAllocation = Num(20)
    /\ pensionFormData.cashAllocation = Num(5)
    /\ allocationError = AllocationMessage(Num(95))
    /\ pensionTimers = <<>>
    /\ pensionResults # NoProjection
    /\ AllocationValid(pensionResults.from)

\* C11: when retirementAge <= currentAge in the form data its timer
\* captured, calculateProjection refuses: the timer body leaves results and
\* selectedYearIndex unchanged and still resets isCalculating to false, so
\* no stored projection has zero or negative years to retirement.
C11_RefusesWithoutYears ==
    /\ [](pensionResults # NoProjection
            => /\ Gt(pensionResults.from.retirementAge, pensionResults.from.currentAge)
               /\ selectedYearIndex # NoYear)
    /\ [][(ProjectionTimerFires
             /\ Le(Head(pensionTimers).retirementAge, Head(pensionTimers).currentAge))
           => /\ pensionResults' = pensionResults
              /\ selectedYearIndex' = selectedYearIndex
              /\ pensionIsCalculating' = FALSE]_vars

C11_Witness ==
    /\ pensionFormData.retirementAge = Num(25)
    /\ pensionFormData.currentAge = Num(30)
    /\ AllocationValid(pensionFormData)
    /\ pensionTimers = <<>>
    /\ ~pensionIsCalculating
    /\ pensionResults # NoProjection
    /\ pensionResults.from.retirementAge = Num(68)
    /\ selectedYearIndex = Num(38)

----------------------------------------------------------------------------
(* Properties of calculateProjection *)

\* The entries pushed so far, or the yearlyBreakdown of the stored results.
Breakdown ==
    IF projection.pc = "done" THEN projection.results.yearlyBreakdown
    ELSE IF projection.pc \in {"year", "results"} THEN projection.yearlyBreakdown
    ELSE <<>>

\* C12: entry 0 of yearlyBreakdown holds currentPension with no growth and no
\* contributions; every later entry k has annualGrowth = pensionValue of
\* entry k-1 times weightedReturn/100 and pensionValue = the previous
\* pensionValue plus that growth plus 12 monthly and 12 employer
\* contributions; realPensionValue of entry k is its pensionValue divided by
\* (1 + inflationRate/100)^k.
C12_YearlyRecurrence ==
    LET fd == projection.formData
        b == Breakdown
    IN  /\ Len(b) > 0 =>
            /\ b[1].pensionValue = fd.currentPension
            /\ b[1].annualGrowth = Zero
            /\ b[1].annualContribution = Zero
            /\ b[1].annualEmployerContribution = Zero
        /\ \A k \in 2 .. Len(b) :
            /\ b[k].annualGrowth =
                   Mul(b[k - 1].pensionValue, Div(WeightedReturn(fd), Num(100)))
            /\ b[k].pensionValue =
                   Add(Add(Add(b[k - 1].pensionValue, b[k].annualGrowth),
                           Mul(Num(12), fd.monthlyContribution)),
                       Mul(Num(12), fd.employerContribution))
        /\ \A k \in 1 .. Len(b) :
            b[k].realPensionValue =
                Div(b[k].pensionValue,
                    Pow(Add(Num(1), Div(fd.inflationRate, Num(100))), k - 1))

C12_Witness ==
    /\ projection.pc = "done"
    /\ Len(Breakdown) = 4
    /\ projection.formData.currentPension = Num(1000)
    /\ projection.formData.monthlyContribution = Num(100)
    /\ projection.formData.employerContribution = Num(50)
    /\ WeightedReturn(projection.formData) = Num(75)
    /\ projection.formData.inflationRate = Num(100)
    /\ Breakdown[4].annualGrowth # Zero
    /\ Breakdown[4].realPensionValue # Breakdown[4].pensionValue

\* C13: every entry of a stored yearlyBreakdown, which is computed from
\* allocations that total 100, has stocks + bonds + cash = pensionValue.
C13_AssetsSumToPensionValue ==
    (projection.pc = "done" /\ AllocationValid(projection.formData)) =>
        \A k \in 1 .. Len(Breakdown) :
            Add(Add(Breakdown[k].stocks, Breakdown[k].bonds), Breakdown[k].cash)
                = Breakdown[k].pensionValue

C13_Witness ==
    /\ projection.pc = "done"
    /\ AllocationValid(projection.formData)
    /\ projection.formData.bondsAllocation = Num(20)
    /\ Len(Breakdown) = 4
    /\ Breakdown[4].stocks[2] > 1
    /\ Breakdown[4].cash # Zero

----------------------------------------------------------------------------
(* Properties of calculatePurchasingPower *)

\* C14: the stored yearlyBreakdown has one entry for every year from the
\* start year to the end year inclusive; the first amount is the input
\* amount, every later amount is the previous amount times
\* (1 + rate of the previous year / 100), so the rate of the end year is never
\* applied; the rate of a year is the table's (2.0 for a year the table does
\* not have); adjustedAmount is the amount of the last entry.
C14_PurchasingPowerWalk ==
    power.pc = "done" =>
        LET b == power.results.yearlyBreakdown
            first == power.validStartYear
            last == power.validEndYear
        IN  /\ Len(b) = last - first + 1
            /\ \A k \in 1 .. Len(b) :
                /\ b[k].year = first + k - 1
                /\ b[k].inflationRate =
                       IF b[k].year \in DOMAIN ukInflationData
                       THEN ukInflationData[b[k].year] ELSE Num(2)
            /\ b[1].amount = power.formData.amount
            /\ \A k \in 2 .. Len(b) :
                b[k].amount =
                    Mul(b[k - 1].amount,
                        Add(Num(1), Div(b[k - 1].inflationRate, Num(100))))
            /\ power.results.adjustedAmount = b[Len(b)].amount

C14_Witness ==
    /\ power.pc = "done"
    /\ power.formData.amount = Num(1000)
    /\ power.validStartYear = 2024
    /\ power.validEndYear = 2026
    /\ Len(power.results.yearlyBreakdown) = 3
    /\ power.results.yearlyBreakdown[2].inflationRate = Num(2)
    /\ power.results.adjustedAmount = <<26316, 25>>

\* C15: when the start year and the end year of the walk are the same year
\* the stored results have adjustedAmount = originalAmount,
\* percentageChange = 0 and averageInflation = 0, for every amount.
C15_SameYearIsIdentity ==
    (power.pc = "done" /\ power.validStartYear = power.validEndYear) =>
        /\ power.results.adjustedAmount = power.results.originalAmount
        /\ power.results.percentageChange = Zero
        /\ power.results.averageInflation = <<"exact", Zero>>

----------------------------------------------------------------------------
(* Properties of the PurchasingPower page *)

\* The years a timer of calculatePurchasingPower walks for the form data.
WalkWithinTable(form) ==
    /\ earliestYear <= ValidStartYear(form)
    /\ ValidEndYear(form, currentYear) <= LatestYear
    /\ ValidStartYear(form) <= ValidEndYear(form, currentYear)

\* C16: whatever change and blur events the year fields have seen, the
\* start year and the end year that a pending or a finished run of
\* calculatePurchasingPower walks lie between the earliest and the latest
\* year of ukInflationData, and the end year is not before the start year.
C16_WalkWithinTable ==
    /\ \A i \in 1 .. Len(powerTimers) : WalkWithinTable(powerTimers[i])
    /\ powerResults # NoPower => WalkWithinTable(powerResults.from)

----------------------------------------------------------------------------
(* Properties of the rate scenarios *)

\* The monthly rate of an annual rate in percent.
MonthlyRateOf(annual) == Div(Div(annual, Num(100)), Num(12))

\* C17: in a mortgage result higherRatePayment is the periodic payment of
\* the same loan amount and term at interestRate + 1, lowerRatePayment the
\* periodic payment at max(0, interestRate - 1), and with interestRate <= 1
\* the lower payment is loanAmount / (loanTerm * 12).
C17_RateScenarios ==
    rates.pc \in {"payment", "done"} =>
        LET form == rates.formData
            P == Sub(form.homePrice, form.downPayment)
            n == Mul(form.loanTerm, Num(12))
            lowerRate == IF Gt(Sub(form.interestRate, Num(1)), Zero)
                         THEN Sub(form.interestRate, Num(1)) ELSE Zero
        IN  /\ rates.results.higherRatePayment
                 = Annuity(P, MonthlyRateOf(Add(form.interestRate, Num(1))), n)
            /\ rates.results.lowerRatePayment = Annuity(P, MonthlyRateOf(lowerRate), n)
            /\ Le(form.interestRate, Num(1))
                 => rates.results.lowerRatePayment = Div(P, n)

C17_Witness ==
    /\ rates.pc = "done"
    /\ rates.formData.interestRate = Num(2)
    /\ rates.results.loanAmount = Num(1000)
    /\ rates.formData.loanTerm = <<1, 12>>
    /\ Lt(rates.results.lowerRatePayment, rates.results.principalAndInterest)
    /\ Lt(rates.results.principalAndInterest, rates.results.higherRatePayment)

\* C18: calculateMonthlyPayment(loanAmount, interestRate, loanTerm) is the
\* principalAndInterest that calculateMortgage computes inline from the same
\* loan amount, interest rate and term.
C18_SamePaymentAtSameRate ==
    rates.pc = "done" => rates.payment = rates.results.principalAndInterest

C18_Witness ==
    /\ rates.pc = "done"
    /\ rates.formData.interestRate = Num(3)
    /\ rates.formData.loanTerm = <<1, 12>>
    /\ rates.results.loanAmount = Num(800)
    /\ rates.payment = Num(802)

----------------------------------------------------------------------------
(* Properties of the pending calculations *)

\* C19: at most one calculation of the mortgage page is in flight: a
\* recomputation triggered while the timer of an earlier one is pending
\* takes its place, so that no second timer is pending.
C19_OneCalculationInFlight == Len(timers) <= 1

\* C20: on the mortgage page, once every pending timer has fired, results
\* is the record computed from the current formData (timers fire in the
\* order they were set, each with the formData of its render, and the last
\* one stores its record over the earlier ones).
C20_ResultsFollowFormData == timers = <<>> => results.from = formData

----------------------------------------------------------------------------
(* Properties of the totals of calculateProjection *)

\* C27: at every year of the loop pensionValue = totalContributions +
\* totalEmployerContributions + totalGrowth, totalContributions holding the
\* starting pension as well, and every stored result has finalPensionNominal
\* = totalContributions + totalEmployerContributions + totalInvestmentGrowth.
C27_PensionDecomposition ==
    /\ projection.pc \in {"year", "results"} =>
           projection.pensionValue =
               Add(Add(projection.totalContributions,
                       projection.totalEmployerContributions),
                   projection.totalGrowth)
    /\ projection.pc = "done" =>
           /\ projection.results.finalPensionNominal =
                  Add(Add(projection.results.totalContributions,
                          projection.results.totalEmployerContributions),
                      projection.results.totalInvestmentGrowth)
           /\ projection.results.finalPensionNominal =
                  projection.results.yearlyBreakdown[
                      Len(projection.results.yearlyBreakdown)].pensionValue

C27_Witness ==
    /\ projection.pc = "done"
    /\ Len(projection.results.yearlyBreakdown) = 4
    /\ projection.formData.currentPension = Num(1000)
    /\ projection.results.totalContributions = Num(4600)
    /\ projection.results.totalEmployerContributions = Num(1800)
    /\ Gt(projection.results.totalInvestmentGrowth, Zero)

----------------------------------------------------------------------------
(* Properties of the chart data *)

\* C22: in the data calculateAmortizationData returns, the
\* nextYearPrincipalPayment and nextYearInterestPayment of the entry of a
\* year k < loanTerm are the principal and the interest paid during year k
\* of the schedule: the yearlyPrincipalPaid and yearlyInterestPaid of the
\* entry of year k + 1.
C22_NextYearIsYearPaid ==
    (lpc = "done" /\ chart.pc = "done") =>
        \A k \in 1 .. Len(chart.yearlyData) - 1 :
            /\ chart.yearlyData[k].nextYearPrincipalPayment
                 = chart.yearlyData[k + 1].yearlyPrincipalPaid
            /\ chart.yearlyData[k].nextYearInterestPayment
                 = chart.yearlyData[k + 1].yearlyInterestPaid

----------------------------------------------------------------------------
(* Properties of the ages and of the selected year of the pension page *)

\* C23: whatever change, focus and blur events the pension form has seen,
\* the currentAge and the retirementAge of formData are within 18..100.
C23_AgesWithinRange ==
    \A name \in AgeFields :
        /\ Le(Num(18), pensionFormData[name])
        /\ Le(pensionFormData[name], Num(100))

\* C28: in every state of the pension page selectedYearIndex is null or an
\* index of results.yearlyBreakdown, whatever recalculations and selections
\* came before; and the yearlyBreakdown of stored results has
\* retirementAge - currentAge + 1 entries, of the ages currentAge to
\* retirementAge.
C28_SelectedYearIsAnIndex ==
    /\ selectedYearIndex # NoYear =>
           /\ pensionResults # NoProjection
           /\ Le(Zero, selectedYearIndex)
           /\ Lt(selectedYearIndex, Num(BreakdownLength(PensionPage)))
    /\ pensionResults # NoProjection =>
           LET form == pensionResults.from
               length == BreakdownLength(PensionPage)
           IN  /\ Num(length) = Add(Sub(form.retirementAge, form.currentAge), Num(1))
               /\ BreakdownAge(form, 0) = form.currentAge
               /\ BreakdownAge(form, length - 1) = form.retirementAge

C28_Witness ==
    /\ pensionResults # NoProjection
    /\ pensionResults.from.retirementAge = Num(40)
    /\ BreakdownLength(PensionPage) = 11
    /\ selectedYearIndex = Num(10)
    /\ pensionTimers = <<>>


\* C29: on each page isCalculating is true in every state in which the timer
\* of a triggered calculation has not yet fired, and it is false only when no
\* calculation is pending.  Stated for the mortgage page while it is mounted.
C29_CalculatingWhilePending ==
    (~crashed /\ timers # <<>>) => isCalculating


----------------------------------------------------------------------------
(* The CarPayment page *)

\* C24: with finance type 'pcp', once the effects of an event have settled,
\* the balloon payment is at most 60% of the car price.
C24_BalloonAtMostSixtyPercent ==
    car.formData.financeType = "pcp" =>
        Le(car.formData.balloonPayment, Mul(car.formData.carPrice, <<6, 10>>))


\* The car price was changed in the field that has the focus, with finance
\* type 'pcp'.
CarPriceChanged ==
    /\ car.focusedField = "carPrice" /\ car'.focusedField = "carPrice"
    /\ car.formData.financeType = "pcp"
    /\ car'.formData.carPrice # car.formData.carPrice

\* C21: with finance type 'pcp' and the car price field focused, once the
\* effects of a change of the car price have settled, deposit is
\* round(carPrice * depositPercent / 100) and balloonPayment is
\* round(carPrice * balloonPercent / 100): both updates of the car price
\* effect take effect.
C21_CarPriceSetsDepositAndBalloon ==
    [][CarPriceChanged =>
          /\ car'.formData.deposit =
                 MathRound(Div(Mul(car'.formData.carPrice, car'.depositPercent), Num(100)))
          /\ car'.formData.balloonPayment =
                 MathRound(Div(Mul(car'.formData.carPrice, car'.balloonPercent), Num(100)))]_vars

\* C25: once the finance type effect has settled, 'hp' has balloonPayment 0
\* and balloonPercent 0, and a switch to 'pcp' while balloonPayment is 0
\* sets balloonPayment to round(carPrice * 0.3) and balloonPercent to 30.
C25_FinanceTypeSwitch ==
    /\ [](car.formData.financeType = "hp" =>
              /\ car.formData.balloonPayment = Zero
              /\ car.balloonPercent = Zero)
    /\ [][(/\ car.formData.financeType = "hp"
           /\ car'.formData.financeType = "pcp"
           /\ car.formData.balloonPayment = Zero) =>
              /\ car'.formData.balloonPayment =
                     MathRound(Mul(car'.formData.carPrice, <<3, 10>>))
              /\ car'.balloonPercent = Num(30)]_vars

\* A switch to 'pcp' at the car price 1,000 has set the default balloon.
C25_Witness ==
    /\ car.formData.financeType = "pcp"
    /\ car.formData.carPrice = Num(1000)
    /\ car.formData.balloonPayment = Num(300)
    /\ car.balloonPercent = Num(30)
    /\ car.inputValues.balloonPercent = <<"3", "0">>

\* C26: every record calculateCarLoan stores has totalCost = carPrice +
\* totalInterest, the records of the timers set during a switch of the
\* finance type included.  Stated for the records computed at the interest
\* rate 0, whose payment needs no power.
C26_TotalCostIsPricePlusInterest ==
    (car.results # NoCarResults /\ car.results.from.interestRate = Zero) =>
        LET stored == CarLoanResults(car.results.from)
        IN  stored.totalCost = Add(car.results.from.carPrice, stored.totalInterest)

====
